---- MODULE Spec2Model ----
(***************************************************************************)
(* Verification model of gangaji's rule-driven analysis pipeline:          *)
(*   - the Datalog engine (datalog/engine.go, kept as src/unnamed/part_000)*)
(*   - the overlap sweep of the fact builder (datalog/facts.go)            *)
(*   - suggestion ordering / deduplication and rule loading                *)
(*     (suggestions/evaluator.go, main.go)                                 *)
(***************************************************************************)
EXTENDS Integers, Sequences, FiniteSets, TLC

(***************************************************************************)
(* Bounds of the exploration.                                              *)
(***************************************************************************)
MaxRules == 2
MaxFacts == 3
MaxEvalCalls == 2
MaxStore == 12
MaxVal == 4
MaxEvents == 3
MaxTs == 3
MaxDur == 2
MaxSugg == 3
MaxFiles == 3
MaxClauses == 2
MaxTraceEvents == 3
MaxTargetEvents == 7
MaxPieces == 2
MaxStrLen == 5
MaxDurSteps == 200
MaxDurStep == 37
MaxAtomArgs == 2
MaxBodyLen == 2
MaxOrderRules == 3
MaxPasses == 4

VARIABLES
    facts,          \* Engine.facts: predicate -> list of facts
    rules,          \* Engine.rules
    pc,             \* position of the caller of the engine
    ruleIdx,        \* index of the rule the fixpoint loop is at
    newFacts,       \* newFacts counter of the current iteration
    evalCalls,      \* number of Engine.Evaluate calls started
    evalErr,        \* error returned by the last Engine.Evaluate ("" = nil)
    callStart,      \* store when the current Evaluate call started
    passStart,      \* store when the current iteration started
    doneStore,      \* store when Evaluate last returned nil
    dzSeen,         \* some expression divided by zero during Evaluate
    viaNeg,         \* facts added through a negation clause, with the negated atom
    passes,         \* iterations of the fixpoint loop completed in this call
    inserted,       \* number of facts inserted directly with AddFact
    prevOk,         \* the previous Evaluate call returned nil
    events,         \* input of computeMaxConcurrency
    maxConcurrency, \* its result (argument of the max_concurrency fact)
    generated,      \* suggestions in generation order (Evaluator.Evaluate)
    sorted,         \* the suggestions after sort.Slice
    suggestionsResult, \* the SuggestionsResult of Evaluator.Evaluate
    files,          \* embedded rule files in walk order
    program,        \* Evaluator.program
    loadErr,        \* error returned by LoadRules ("" = nil)
    warnings,       \* warnings logged by main
    rulesDir,       \* Evaluator.rulesDir: the external rules directory
    input,          \* argument of the function under study
    output,         \* its result
    phase           \* position of main / of the pure-function drivers

engineVars == <<facts, rules, pc, ruleIdx, newFacts, evalCalls, evalErr,
                callStart, passStart, doneStore, dzSeen, viaNeg, passes,
                inserted, prevOk>>
sweepVars == <<events, maxConcurrency>>
suggVars == <<generated, sorted, suggestionsResult>>
loadVars == <<files, program, loadErr, warnings, rulesDir>>
pureVars == <<input, output>>
vars == <<engineVars, sweepVars, suggVars, loadVars, pureVars, phase>>

(***************************************************************************)
(* Values.  A Go interface{} value is a number (every numeric kind is      *)
(* coerced by toFloat64; kept exact as a reduced fraction n/d), the        *)
(* float64 NaN, or a string.                                               *)
(***************************************************************************)
Abs(i) == IF i < 0 THEN -i ELSE i

RECURSIVE GCD(_, _)
GCD(a, b) == IF b = 0 THEN a ELSE GCD(b, a % b)

Frac(n, d) ==
    LET g == GCD(Abs(n), d)
    IN  [k |-> "n", n |-> n \div g, d |-> d \div g]

Num(i) == [k |-> "n", n |-> i, d |-> 1]
Str(s) == [k |-> "s", s |-> s]
NaN == [k |-> "nan"]

\* toFloat64: numeric kinds convert, everything else is an error
toFloat64(val) == [ok |-> val.k \in {"n", "nan"}, v |-> val]

RECURSIVE FracDigits(_, _, _)
FracDigits(r, d, k) ==
    IF r = 0 \/ k = 0 THEN ""
    ELSE ToString((r * 10) \div d) \o FracDigits((r * 10) % d, d, k - 1)

\* fmt.Sprint of a value (shortest decimal form of a float64, at most 16
\* fractional digits)
Sprint(val) ==
    CASE val.k = "s" -> val.s
      [] val.k = "nan" -> "NaN"
      [] val.k = "n" ->
            LET a  == Abs(val.n)
                ip == a \div val.d
                fr == a % val.d
                sg == IF val.n < 0 THEN "-" ELSE ""
            IN  IF fr = 0 THEN sg \o ToString(ip)
                ELSE sg \o ToString(ip) \o "." \o FracDigits(fr, val.d, 16)

\* exact order of two numbers (NaN handled by the callers)
NumLess(a, b) == a.n * b.d < b.n * a.d

\* float64 ==
FloatEq(a, b) == a.k = "n" /\ b.k = "n" /\ a = b

valuesEqual(a, b) ==
    IF toFloat64(a).ok /\ toFloat64(b).ok
    THEN FloatEq(a, b)
    ELSE Sprint(a) = Sprint(b)

\* byte sequences of the strings that rules and facts of the model use,
\* for Go's lexicographic string comparison
StrBytes(s) ==
    CASE s = "" -> << >>
      [] s = "a" -> <<97>>
      [] s = "b" -> <<98>>
      [] s = "ab" -> <<97, 98>>
      [] s = "1" -> <<49>>
      [] s = "2" -> <<50>>
      [] s = "10" -> <<49, 48>>
      [] s = "NaN" -> <<78, 97, 78>>

RECURSIVE DigitBytes(_)
DigitBytes(i) ==
    IF i < 10 THEN <<48 + i>> ELSE Append(DigitBytes(i \div 10), 48 + (i % 10))

RECURSIVE FracBytes(_, _, _)
FracBytes(r, d, k) ==
    IF r = 0 \/ k = 0 THEN << >>
    ELSE <<48 + ((r * 10) \div d)>> \o FracBytes((r * 10) % d, d, k - 1)

SprintBytes(val) ==
    CASE val.k = "s" -> StrBytes(val.s)
      [] val.k = "nan" -> StrBytes("NaN")
      [] val.k = "n" ->
            LET a  == Abs(val.n)
                fr == a % val.d
                sg == IF val.n < 0 THEN <<45>> ELSE << >>
            IN  sg \o DigitBytes(a \div val.d)
                   \o (IF fr = 0 THEN << >> ELSE <<46>> \o FracBytes(fr, val.d, 16))

RECURSIVE BytesLess(_, _)
BytesLess(x, y) ==
    IF y = << >> THEN FALSE
    ELSE IF x = << >> THEN TRUE
    ELSE IF Head(x) # Head(y) THEN Head(x) < Head(y)
    ELSE BytesLess(Tail(x), Tail(y))

KnownOps == {"=", "!=", "<", "<=", ">", ">="}

\* compareValues: numeric when both sides convert, else on the printed forms;
\* an operator outside the six known ones is an error
compareValues(left, right, op) ==
    IF op \notin KnownOps
    THEN [res |-> FALSE, err |-> "unknown comparison operator"]
    ELSE IF toFloat64(left).ok /\ toFloat64(right).ok
    THEN LET nan == left.k = "nan" \/ right.k = "nan"
             lt  == ~nan /\ NumLess(left, right)
             gt  == ~nan /\ NumLess(right, left)
             eq  == ~nan /\ left = right
         IN  [res |-> CASE op = "="  -> eq
                        [] op = "!=" -> ~eq
                        [] op = "<"  -> lt
                        [] op = "<=" -> lt \/ eq
                        [] op = ">"  -> gt
                        [] op = ">=" -> gt \/ eq,
              err |-> ""]
    ELSE LET lt == BytesLess(SprintBytes(left), SprintBytes(right))
             gt == BytesLess(SprintBytes(right), SprintBytes(left))
             eq == Sprint(left) = Sprint(right)
         IN  [res |-> CASE op = "="  -> eq
                        [] op = "!=" -> ~eq
                        [] op = "<"  -> lt
                        [] op = "<=" -> lt \/ eq
                        [] op = ">"  -> gt
                        [] op = ">=" -> gt \/ eq,
              err |-> ""]

(***************************************************************************)
(* AST constructors (datalog/types.go).                                    *)
(***************************************************************************)
Var(name) == [t |-> "var", name |-> name]
Const(v) == [t |-> "const", v |-> v]
Wild == [t |-> "wild"]
Atom(p, args) == [Predicate |-> p, Args |-> args]
AtomClause(a) == [c |-> "atom", atom |-> a]
Comparison(l, op, r) == [c |-> "cmp", left |-> l, op |-> op, right |-> r]
Assignment(v, e) == [c |-> "assign", var |-> v, expr |-> e]
Aggregation(op, v, body, into) ==
    [c |-> "agg", op |-> op, var |-> v, body |-> body, into |-> into]
Negation(a) == [c |-> "neg", atom |-> a]
TermExpr(t) == [e |-> "term", term |-> t]
BinaryExpr(l, op, r) == [e |-> "bin", left |-> l, op |-> op, right |-> r]
FunctionCall(name, args) == [e |-> "call", name |-> name, args |-> args]
Rule(h, body) == [Head |-> h, Body |-> body]
Fact(p, args) == [Predicate |-> p, Args |-> args]

(***************************************************************************)
(* Bindings: a map from variable names to values.                          *)
(***************************************************************************)
EmptyBindings == [v \in {} |-> NaN]
Bound(b, v) == v \in DOMAIN b
\* Bindings.Clone followed by an assignment to one key
CloneSet(b, v, val) == [x \in DOMAIN b \cup {v} |-> IF x = v THEN val ELSE b[x]]

RECURSIVE Flatten(_)
Flatten(ss) == IF ss = << >> THEN << >> ELSE Head(ss) \o Flatten(Tail(ss))

\* result of evaluating clauses: candidate bindings, the error ("" = nil),
\* and whether an expression divided by zero on the way
Res(bs, err, dz) == [bs |-> bs, err |-> err, dz |-> dz]

\* Engine.resolveTerm
resolveTerm(term, b) ==
    CASE term.t = "var" ->
            IF Bound(b, term.name)
            THEN [ok |-> TRUE, v |-> b[term.name], err |-> ""]
            ELSE [ok |-> FALSE, v |-> NaN, err |-> "unbound variable"]
      [] term.t = "const" -> [ok |-> TRUE, v |-> term.v, err |-> ""]
      [] term.t = "wild" -> [ok |-> FALSE, v |-> NaN, err |-> "cannot resolve wildcard"]

(***************************************************************************)
(* Arithmetic on float64 operands (Engine.evaluateExpression, BinaryExpr). *)
(***************************************************************************)
KnownArithOps == {"+", "-", "*", "/", "%"}

\* truncation toward zero of n/d, d > 0
Trunc(n, d) == IF n >= 0 THEN n \div d ELSE -((-n) \div d)

arith(left, right, op) ==
    LET nan == left.k = "nan" \/ right.k = "nan"
        okv(v) == [ok |-> TRUE, v |-> v, err |-> ""]
    IN  CASE op = "+" ->
                okv(IF nan THEN NaN
                    ELSE Frac(left.n * right.d + right.n * left.d, left.d * right.d))
          [] op = "-" ->
                okv(IF nan THEN NaN
                    ELSE Frac(left.n * right.d - right.n * left.d, left.d * right.d))
          [] op = "*" ->
                okv(IF nan THEN NaN ELSE Frac(left.n * right.n, left.d * right.d))
          [] op = "/" ->
                IF right.k = "n" /\ right.n = 0
                THEN [ok |-> FALSE, v |-> NaN, err |-> "division by zero"]
                ELSE okv(IF nan THEN NaN
                         ELSE IF right.n > 0
                              THEN Frac(left.n * right.d, left.d * right.n)
                              ELSE Frac(-(left.n * right.d), left.d * (-right.n)))
          [] op = "%" ->
                \* math.Mod: NaN for a zero divisor, else x - y*trunc(x/y)
                okv(IF nan \/ right.n = 0 THEN NaN
                    ELSE LET num == left.n * right.d
                             den == left.d * right.n
                             q   == IF den > 0 THEN Trunc(num, den)
                                    ELSE Trunc(-num, -den)
                         IN  Frac(left.n * right.d - q * right.n * left.d,
                                  left.d * right.d))
          [] OTHER -> [ok |-> FALSE, v |-> NaN, err |-> "unknown operator"]

\* the built-in functions registered by registerDefaultBuiltins and
\* RegisterFormattingBuiltins that the model's rules call
Builtins == {"abs", "min", "max"}

callBuiltin(name, args) ==
    LET bad(msg) == [ok |-> FALSE, v |-> NaN, err |-> msg]
        okv(v) == [ok |-> TRUE, v |-> v, err |-> ""]
    IN  CASE name = "abs" ->
                IF Len(args) # 1 THEN bad("abs expects 1 argument")
                ELSE IF ~toFloat64(args[1]).ok THEN bad("cannot convert")
                ELSE okv(IF args[1].k = "nan" THEN NaN
                         ELSE Frac(Abs(args[1].n), args[1].d))
          [] name \in {"min", "max"} ->
                IF Len(args) # 2 THEN bad("expects 2 arguments")
                ELSE IF ~toFloat64(args[1]).ok \/ ~toFloat64(args[2]).ok
                THEN bad("cannot convert")
                ELSE LET a == args[1]
                         b == args[2]
                         nan == a.k = "nan" \/ b.k = "nan"
                     IN  IF name = "min"
                         THEN okv(IF ~nan /\ NumLess(a, b) THEN a ELSE b)
                         ELSE okv(IF ~nan /\ NumLess(b, a) THEN a ELSE b)

\* Engine.evaluateExpression
RECURSIVE evaluateExpression(_, _)
RECURSIVE evaluateArgs(_, _, _, _)
evaluateArgs(args, b, i, acc) ==
    IF i > Len(args) THEN [ok |-> TRUE, v |-> acc, err |-> ""]
    ELSE LET r == evaluateExpression(args[i], b)
         IN  IF ~r.ok THEN r ELSE evaluateArgs(args, b, i + 1, Append(acc, r.v))

evaluateExpression(expr, b) ==
    CASE expr.e = "term" -> resolveTerm(expr.term, b)
      [] expr.e = "bin" ->
            LET l == evaluateExpression(expr.left, b)
            IN  IF ~l.ok THEN l
                ELSE LET r == evaluateExpression(expr.right, b)
                     IN  IF ~r.ok THEN r
                         ELSE IF ~toFloat64(l.v).ok \/ ~toFloat64(r.v).ok
                         THEN [ok |-> FALSE, v |-> NaN, err |-> "cannot convert"]
                         ELSE arith(l.v, r.v, expr.op)
      [] expr.e = "call" ->
            IF expr.name \notin Builtins
            THEN [ok |-> FALSE, v |-> NaN, err |-> "unknown function"]
            ELSE LET a == evaluateArgs(expr.args, b, 1, << >>)
                 IN  IF ~a.ok THEN a ELSE callBuiltin(expr.name, a.v)

(***************************************************************************)
(* Clause evaluation.  The store is a function from predicate names to     *)
(* lists of facts; an absent map key is the empty list.                    *)
(***************************************************************************)
\* variant: a variable that is already bound is bound again to the fact value
RECURSIVE matchArgsRebind(_, _, _, _, _)
matchArgsRebind(args, fargs, i, nb, match) ==
    IF i > Len(args) THEN [match |-> match, b |-> nb]
    ELSE CASE args[i].t = "var" ->
                 matchArgsRebind(args, fargs, i + 1,
                                 CloneSet(nb, args[i].name, fargs[i]), match)
           [] args[i].t = "const" ->
                 matchArgsRebind(args, fargs, i + 1, nb,
                                 match /\ valuesEqual(args[i].v, fargs[i]))
           [] args[i].t = "wild" -> matchArgsRebind(args, fargs, i + 1, nb, match)

\* the argument loop of Engine.evaluateAtom for one fact: `break` leaves the
\* switch only, so the remaining arguments are still visited after a mismatch
RECURSIVE matchArgs(_, _, _, _, _)
matchArgs(args, fargs, i, nb, match) ==
    IF i > Len(args) THEN [match |-> match, b |-> nb]
    ELSE LET arg == args[i]
             factVal == fargs[i]
         IN  CASE arg.t = "var" ->
                    IF Bound(nb, arg.name)
                    THEN matchArgs(args, fargs, i + 1, nb,
                                   match /\ valuesEqual(nb[arg.name], factVal))
                    ELSE matchArgs(args, fargs, i + 1,
                                   CloneSet(nb, arg.name, factVal), match)
               [] arg.t = "const" ->
                    matchArgs(args, fargs, i + 1, nb,
                              match /\ valuesEqual(arg.v, factVal))
               [] arg.t = "wild" -> matchArgs(args, fargs, i + 1, nb, match)

\* Engine.evaluateAtom
evaluateAtom(store, atom, b) ==
    LET fs == store[atom.Predicate]
        one(f) == IF Len(f.Args) # Len(atom.Args) THEN << >>
                  ELSE LET m == matchArgs(atom.Args, f.Args, 1, b, TRUE)
                       IN  IF m.match THEN <<m.b>> ELSE << >>
    IN  Res(Flatten([i \in 1..Len(fs) |-> one(fs[i])]), "", FALSE)

\* Engine.evaluateComparison
evaluateComparison(comp, b) ==
    LET l == resolveTerm(comp.left, b)
        r == resolveTerm(comp.right, b)
    IN  IF ~l.ok \/ ~r.ok THEN Res(<< >>, "", FALSE)
        ELSE LET c == compareValues(l.v, r.v, comp.op)
             IN  IF c.err # "" THEN Res(<< >>, c.err, FALSE)
                 ELSE IF c.res THEN Res(<<b>>, "", FALSE)
                 ELSE Res(<< >>, "", FALSE)

\* variant: an expression error is returned to the caller
evaluateAssignmentStrict(assign, b) ==
    LET r == evaluateExpression(assign.expr, b)
    IN  IF ~r.ok THEN Res(<< >>, r.err, r.err = "division by zero")
        ELSE Res(<<CloneSet(b, assign.var, r.v)>>, "", FALSE)

\* Engine.evaluateAssignment: any expression error means "no match"
evaluateAssignment(assign, b) ==
    LET r == evaluateExpression(assign.expr, b)
    IN  IF ~r.ok THEN Res(<< >>, "", r.err = "division by zero")
        ELSE Res(<<CloneSet(b, assign.var, r.v)>>, "", FALSE)

\* Engine.evaluateNegation
evaluateNegation(store, neg, b) ==
    LET m == evaluateAtom(store, neg.atom, b)
    IN  IF m.err # "" THEN m
        ELSE IF Len(m.bs) = 0 THEN Res(<<b>>, "", FALSE)
        ELSE Res(<< >>, "", FALSE)

RECURSIVE SumSeq(_)
SumSeq(vs) ==
    IF vs = << >> THEN Num(0) ELSE arith(Head(vs), SumSeq(Tail(vs)), "+").v

\* the max / min reduction loops of evaluateAggregation (v > result, v < result)
RECURSIVE Reduce(_, _, _)
Reduce(vs, acc, op) ==
    IF vs = << >> THEN acc
    ELSE LET v == Head(vs)
             nan == v.k = "nan" \/ acc.k = "nan"
             take == ~nan /\ (IF op = "max" THEN NumLess(acc, v) ELSE NumLess(v, acc))
         IN  Reduce(Tail(vs), IF take THEN v ELSE acc, op)

RECURSIVE evaluateBody(_, _, _)

\* variant: the result is bound in the first binding of the nested body
evaluateAggregationLeaky(store, agg, b) ==
    LET into(body) ==
            IF body.err # "" THEN body
            ELSE IF agg.op = "count"
            THEN Res(<<CloneSet(IF Len(body.bs) > 0 THEN body.bs[1] ELSE b,
                                agg.into, Num(Len(body.bs)))>>, "", FALSE)
            ELSE Res(<< >>, "", FALSE)
    IN  into(evaluateBody(store, agg.body, <<b>>))

\* Engine.evaluateAggregation
evaluateAggregation(store, agg, b) ==
    LET val(r) == IF agg.op = "count" THEN <<Num(1)>>
                  ELSE IF r.ok /\ toFloat64(r.v).ok THEN <<r.v>> ELSE << >>
        reduce(values) ==
            CASE agg.op = "count" -> <<Num(Len(values))>>
              [] agg.op = "sum" -> <<SumSeq(values)>>
              [] agg.op \in {"max", "min"} ->
                    IF Len(values) = 0 THEN << >>
                    ELSE <<Reduce(Tail(values), Head(values), agg.op)>>
              [] agg.op = "avg" ->
                    IF Len(values) = 0 THEN << >>
                    ELSE <<arith(SumSeq(values), Num(Len(values)), "/").v>>
              [] OTHER -> <<Num(0)>>
        bind(vs, dz) == Res([i \in 1..Len(vs) |-> CloneSet(b, agg.into, vs[i])], "", dz)
        over(body) ==
            IF body.err # "" THEN body
            ELSE bind(reduce(Flatten([i \in 1..Len(body.bs) |->
                                        val(resolveTerm(Var(agg.var), body.bs[i]))])),
                      body.dz)
    IN  over(evaluateBody(store, agg.body, <<b>>))

\* Engine.evaluateClause
evaluateClause(store, clause, b) ==
    CASE clause.c = "atom" -> evaluateAtom(store, clause.atom, b)
      [] clause.c = "cmp" -> evaluateComparison(clause, b)
      [] clause.c = "assign" -> evaluateAssignment(clause, b)
      [] clause.c = "agg" -> evaluateAggregation(store, clause, b)
      [] clause.c = "neg" -> evaluateNegation(store, clause, b)
      [] OTHER -> Res(<< >>, "unknown clause type", FALSE)

\* the inner loop of evaluateBody: one clause over every candidate, stopping
\* at the first error
RECURSIVE clauseOver(_, _, _, _, _, _)
clauseOver(store, clause, bs, i, acc, dz) ==
    IF i > Len(bs) THEN Res(acc, "", dz)
    ELSE LET next(r) ==
                 IF r.err # "" THEN Res(<< >>, r.err, dz \/ r.dz)
                 ELSE clauseOver(store, clause, bs, i + 1, acc \o r.bs, dz \/ r.dz)
         IN  next(evaluateClause(store, clause, bs[i]))

RECURSIVE bodyFrom(_, _, _, _, _)
bodyFrom(store, clauses, ci, result, dz) ==
    IF ci > Len(clauses) THEN Res(result, "", dz)
    ELSE LET next(r) ==
                 IF r.err # "" THEN r
                 ELSE IF Len(r.bs) = 0 THEN r
                 ELSE bodyFrom(store, clauses, ci + 1, r.bs, r.dz)
         IN  next(clauseOver(store, clauses[ci], result, 1, << >>, dz))

\* Engine.evaluateBody
evaluateBody(store, clauses, bindings) == bodyFrom(store, clauses, 1, bindings, FALSE)

\* variant: a head term that does not resolve is instantiated as ""
instantiateAtomBlank(atom, b) ==
    LET rs == [i \in 1..Len(atom.Args) |-> resolveTerm(atom.Args[i], b)]
    IN  [ok |-> TRUE,
         fact |-> Fact(atom.Predicate,
                       [i \in 1..Len(rs) |-> IF rs[i].ok THEN rs[i].v ELSE Str("")])]

\* Engine.instantiateAtom
instantiateAtom(atom, b) ==
    LET rs == [i \in 1..Len(atom.Args) |-> resolveTerm(atom.Args[i], b)]
    IN  IF \E i \in 1..Len(rs) : ~rs[i].ok
        THEN [ok |-> FALSE, fact |-> Fact(atom.Predicate, << >>)]
        ELSE [ok |-> TRUE,
              fact |-> Fact(atom.Predicate, [i \in 1..Len(rs) |-> rs[i].v])]

\* Engine.evaluateRule: the derived facts, each with the binding it came from
evaluateRule(store, rule) ==
    LET one(f, b) == IF f.ok THEN <<[fact |-> f.fact, b |-> b]>> ELSE << >>
        heads(body) ==
            IF body.err # "" THEN [derived |-> << >>, err |-> body.err, dz |-> body.dz]
            ELSE [derived |-> Flatten([i \in 1..Len(body.bs) |->
                                one(instantiateAtom(rule.Head, body.bs[i]), body.bs[i])]),
                  err |-> "", dz |-> body.dz]
    IN  heads(evaluateBody(store, rule.Body, <<EmptyBindings>>))

factsEqual(a, b) ==
    /\ a.Predicate = b.Predicate
    /\ Len(a.Args) = Len(b.Args)
    /\ \A i \in 1..Len(a.Args) : valuesEqual(a.Args[i], b.Args[i])

\* variant: the duplicate check never finds the fact
factExistsNever(store, fact) == FALSE

\* Engine.factExists
factExists(store, fact) ==
    \E i \in 1..Len(store[fact.Predicate]) : factsEqual(store[fact.Predicate][i], fact)

\* variant: the predicate's list is replaced instead of appended to
AddFactOverwrite(store, f) == [store EXCEPT ![f.Predicate] = <<f>>]

\* variant: a fact that is already in the store is not inserted again
AddFactUnique(store, f) ==
    IF \E i \in 1..Len(store[f.Predicate]) : factsEqual(store[f.Predicate][i], f)
    THEN store
    ELSE [store EXCEPT ![f.Predicate] = Append(@, f)]

\* Engine.AddFact
AddFact(store, f) == [store EXCEPT ![f.Predicate] = Append(@, f)]

RECURSIVE AddFacts(_, _)
AddFacts(store, fs) ==
    IF fs = << >> THEN store ELSE AddFacts(AddFact(store, Head(fs)), Tail(fs))

RECURSIVE SumLens(_, _)
SumLens(store, ps) ==
    IF ps = {} THEN 0
    ELSE LET p == CHOOSE x \in ps : TRUE
         IN  Len(store[p]) + SumLens(store, ps \ {p})

\* Engine.FactCount
FactCount(store) == SumLens(store, DOMAIN store)

(***************************************************************************)
(* The engine as a state machine: AddFact / AddRule calls, then            *)
(* Engine.Evaluate, one rule of the fixpoint loop per step.                *)
(***************************************************************************)
Preds == {"e", "q", "r", "p", "d", "c", "s", "h", "g",
          "total_duration", "total_action_time", "total_actions",
          "actionable_time", "actionable_count", "max_concurrency",
          "idle", "serial"}

EmptyStore == [p \in Preds |-> << >>]

\* facts the caller may insert, in the order in which it inserts them (a
\* fact may be inserted more than once)
FactCatalog ==
    << Fact("q", <<Num(1)>>),
       Fact("e", <<Num(1), Num(2)>>),
       Fact("e", <<Num(2), Num(3)>>),
       Fact("e", <<Num(2), Num(0)>>) >>

\* q(?Y) :- q(?X), e(?X, ?Y).
RuleRec == Rule(Atom("q", <<Var("?Y")>>),
                <<AtomClause(Atom("q", <<Var("?X")>>)),
                  AtomClause(Atom("e", <<Var("?X"), Var("?Y")>>))>>)
\* r(?Y) :- e(_, ?Y), not q(?Y).
RuleNeg == Rule(Atom("r", <<Var("?Y")>>),
                <<AtomClause(Atom("e", <<Wild, Var("?Y")>>)),
                  Negation(Atom("q", <<Var("?Y")>>))>>)
\* d(?Z) :- e(?X, ?Y), ?Z = ?X / ?Y.
RuleDiv == Rule(Atom("d", <<Var("?Z")>>),
                <<AtomClause(Atom("e", <<Var("?X"), Var("?Y")>>)),
                  Assignment("?Z", BinaryExpr(TermExpr(Var("?X")), "/",
                                              TermExpr(Var("?Y"))))>>)
\* c(?N) :- aggregate(count(?X), q(?X), ?N).
RuleCount == Rule(Atom("c", <<Var("?N")>>),
                  <<Aggregation("count", "?X",
                                <<AtomClause(Atom("q", <<Var("?X")>>))>>, "?N")>>)
\* p(?X) :- q(?X), ?X > 1.
RuleCmp == Rule(Atom("p", <<Var("?X")>>),
                <<AtomClause(Atom("q", <<Var("?X")>>)),
                  Comparison(Var("?X"), ">", Const(Num(1)))>>)
\* s(?X) :- q(?X), ?X ~ 1.   (a Comparison built with an operator the
\* engine does not know)
RuleBadOp == Rule(Atom("s", <<Var("?X")>>),
                  <<AtomClause(Atom("q", <<Var("?X")>>)),
                    Comparison(Var("?X"), "~", Const(Num(1)))>>)
RuleCatalog == {RuleRec, RuleNeg, RuleDiv, RuleCount, RuleCmp, RuleBadOp}

\* h(?X, ?W) :- q(?X).   (?W occurs nowhere in the body)
RuleUnboundHead == Rule(Atom("h", <<Var("?X"), Var("?W")>>),
                        <<AtomClause(Atom("q", <<Var("?X")>>))>>)
\* h(?X, _) :- q(?X).
RuleWildHead == Rule(Atom("h", <<Var("?X"), Wild>>),
                     <<AtomClause(Atom("q", <<Var("?X")>>))>>)
\* g(?X, "a") :- q(?X).
RuleConstHead == Rule(Atom("g", <<Var("?X"), Const(Str("a"))>>),
                      <<AtomClause(Atom("q", <<Var("?X")>>))>>)
HeadCatalog == {RuleUnboundHead, RuleWildHead, RuleConstHead, RuleRec}

\* the rules the owner of the engine registers in each scenario
\* d(?Z) :- q(?X), ?Z = nosuch(?X).   (a function that is not registered)
RuleUnknownFn == Rule(Atom("d", <<Var("?Z")>>),
                      <<AtomClause(Atom("q", <<Var("?X")>>)),
                        Assignment("?Z", FunctionCall("nosuch", <<TermExpr(Var("?X"))>>))>>)
\* d(?Z) :- q(?X), ?Z = abs(?X, ?X).   (abs takes one argument)
RuleArity == Rule(Atom("d", <<Var("?Z")>>),
                  <<AtomClause(Atom("q", <<Var("?X")>>)),
                    Assignment("?Z", FunctionCall("abs", <<TermExpr(Var("?X")),
                                                           TermExpr(Var("?X"))>>))>>)
\* d(?Z) :- q(?X), ?Z = ?X + 1.   (fails for the candidates with a string ?X)
RuleIncr == Rule(Atom("d", <<Var("?Z")>>),
                 <<AtomClause(Atom("q", <<Var("?X")>>)),
                   Assignment("?Z", BinaryExpr(TermExpr(Var("?X")), "+",
                                               TermExpr(Const(Num(1)))))>>)
\* d(?Z) :- q(?X), ?Z = ?X * ?W.   (?W is bound nowhere)
RuleUnboundOperand == Rule(Atom("d", <<Var("?Z")>>),
                           <<AtomClause(Atom("q", <<Var("?X")>>)),
                             Assignment("?Z", BinaryExpr(TermExpr(Var("?X")), "*",
                                                         TermExpr(Var("?W"))))>>)
\* p(?X) :- q(?X), ?W > 1.   (?W is bound nowhere)
RuleUnboundCmp == Rule(Atom("p", <<Var("?X")>>),
                       <<AtomClause(Atom("q", <<Var("?X")>>)),
                         Comparison(Var("?W"), ">", Const(Num(1)))>>)
\* r(?X) :- q(?X).
RuleCopy == Rule(Atom("r", <<Var("?X")>>), <<AtomClause(Atom("q", <<Var("?X")>>))>>)
ErrorCatalog == {RuleUnknownFn, RuleArity, RuleIncr, RuleUnboundOperand,
                 RuleUnboundCmp, RuleCopy}

\* the facts inserted before the rules with failing clauses are evaluated
ErrorFacts == << Fact("q", <<Num(1)>>), Fact("q", <<Str("a")>>), Fact("q", <<Num(2)>>) >>

\* c(?N) :- aggregate(count(?X), c(?X), ?N).
RuleCountSelf == Rule(Atom("c", <<Var("?N")>>),
                      <<Aggregation("count", "?X",
                                    <<AtomClause(Atom("c", <<Var("?X")>>))>>, "?N")>>)
\* q(?N) :- aggregate(max(?X), q(?X), ?N).
RuleMaxSelf == Rule(Atom("q", <<Var("?N")>>),
                    <<Aggregation("max", "?X",
                                  <<AtomClause(Atom("q", <<Var("?X")>>))>>, "?N")>>)
\* q(?N) :- aggregate(min(?X), q(?X), ?N).
RuleMinSelf == Rule(Atom("q", <<Var("?N")>>),
                    <<Aggregation("min", "?X",
                                  <<AtomClause(Atom("q", <<Var("?X")>>))>>, "?N")>>)

AggregationCatalogRules == {RuleCountSelf, RuleMaxSelf, RuleMinSelf, RuleCount}
AggregationFacts == << Fact("q", <<Num(1)>>), Fact("q", <<Num(2)>>), Fact("q", <<NaN>>) >>

RulesOf(ph) ==
    CASE ph = "heads" -> HeadCatalog
      [] ph = "errors" -> ErrorCatalog
      [] ph = "aggregates" -> AggregationCatalogRules
      [] OTHER -> RuleCatalog

FactsOf(ph) ==
    CASE ph = "errors" -> ErrorFacts
      [] ph = "aggregates" -> AggregationFacts
      [] OTHER -> FactCatalog

\* the exploration bound on derived values and on the size of the store
WithinBounds(store) ==
    /\ FactCount(store) <= MaxStore
    /\ \A p \in DOMAIN store : \A i \in 1..Len(store[p]) :
          \A j \in 1..Len(store[p][i].Args) :
             LET v == store[p][i].Args[j]
             IN  v.k = "n" => (Abs(v.n) <= MaxVal /\ v.d <= MaxVal)

\* the negated atoms of a rule body, instantiated with a binding
negInstances(rule, b) ==
    LET inst(t) == IF t.t = "var" /\ Bound(b, t.name) THEN Const(b[t.name]) ELSE t
    IN  { Atom(rule.Body[i].atom.Predicate,
               [j \in 1..Len(rule.Body[i].atom.Args) |-> inst(rule.Body[i].atom.Args[j])])
          : i \in {k \in 1..Len(rule.Body) : rule.Body[k].c = "neg"} }

\* the loop of Engine.Evaluate over the facts derived by one rule
RECURSIVE addDerived(_, _, _, _, _, _)
addDerived(store, rule, derived, i, n, via) ==
    IF i > Len(derived) THEN [store |-> store, n |-> n, via |-> via]
    ELSE IF ~factExists(store, derived[i].fact)
    THEN addDerived(AddFact(store, derived[i].fact), rule, derived, i + 1, n + 1,
                    via \cup { [fact |-> derived[i].fact, neg |-> a]
                               : a \in negInstances(rule, derived[i].b) })
    ELSE addDerived(store, rule, derived, i + 1, n, via)

\* variant: the loop stops after the first iteration
FixpointReachedOnePass(n) == TRUE

\* variant: the loop stops although one fact was still added
FixpointReachedLoose(n) == n <= 1

\* `if newFacts == 0 { break }`
FixpointReached(n) == n = 0

NoSweep == events = << >> /\ maxConcurrency = 0
NoResult == [Suggestions |-> << >>, RulesEvaluated |-> 0, FactsGenerated |-> 0]
NoSuggestions == generated = << >> /\ sorted = << >> /\ suggestionsResult = NoResult
\* NewEvaluator(""): no external rules directory
NoRulesDir == [set |-> FALSE, exists |-> FALSE, files |-> << >>]
NoLoad ==
    /\ files = << >>
    /\ program = [Rules |-> << >>, SuggestionRules |-> << >>]
    /\ loadErr = ""
    /\ warnings = << >>
    /\ rulesDir = NoRulesDir
NoPure == input = << >> /\ output = << >>

EngineIdle == NoSweep /\ NoSuggestions /\ NoLoad /\ NoPure

\* NewEngine: no facts, no rules, nothing evaluated yet
NewEngine ==
    /\ facts = EmptyStore
    /\ rules = << >>
    /\ pc = "idle"
    /\ ruleIdx = 1
    /\ newFacts = 0
    /\ evalCalls = 0
    /\ evalErr = ""
    /\ callStart = EmptyStore
    /\ passStart = EmptyStore
    /\ doneStore = EmptyStore
    /\ dzSeen = FALSE
    /\ viaNeg = {}
    /\ passes = 0
    /\ inserted = 0
    /\ prevOk = FALSE

EngineInit ==
    /\ NewEngine
    /\ phase = "engine"
    /\ EngineIdle

othersUnchanged == UNCHANGED <<sweepVars, suggVars, loadVars, pureVars, phase>>

\* Engine.AddFact called by the owner of the engine
AddFactCall ==
    /\ pc = "idle"
    /\ inserted < MaxFacts
    /\ \E k \in 1..Len(FactsOf(phase)) :
          /\ \A j \in (k + 1)..Len(FactsOf(phase)) : ~factExists(facts, FactsOf(phase)[j])
          /\ facts' = AddFact(facts, FactsOf(phase)[k])
          /\ inserted' = inserted + 1
    /\ UNCHANGED <<rules, pc, ruleIdx, newFacts, evalCalls, evalErr, callStart,
                   passStart, doneStore, dzSeen, viaNeg, passes, prevOk>>
    /\ othersUnchanged

\* Engine.AddRule
AddRuleCall ==
    /\ pc = "idle"
    /\ Len(rules) < MaxRules
    /\ \E r \in RulesOf(phase) :
          /\ \A i \in 1..Len(rules) : rules[i] # r
          /\ rules' = Append(rules, r)
    /\ UNCHANGED <<facts, pc, ruleIdx, newFacts, evalCalls, evalErr, callStart,
                   passStart, doneStore, dzSeen, viaNeg, passes, inserted, prevOk>>
    /\ othersUnchanged

\* entry of Engine.Evaluate
EvaluateCall ==
    /\ pc \in {"idle", "done", "error"}
    /\ evalCalls < MaxEvalCalls
    /\ pc' = "eval"
    /\ evalCalls' = evalCalls + 1
    /\ prevOk' = (pc = "done")
    /\ ruleIdx' = 1
    /\ newFacts' = 0
    /\ passes' = 0
    /\ evalErr' = ""
    /\ dzSeen' = FALSE
    /\ callStart' = facts
    /\ passStart' = facts
    /\ UNCHANGED <<facts, rules, doneStore, viaNeg, inserted>>
    /\ othersUnchanged

\* one turn of `for _, rule := range e.rules`
EvalRule ==
    /\ pc = "eval"
    /\ ruleIdx <= Len(rules)
    /\ LET r == evaluateRule(facts, rules[ruleIdx])
           a == addDerived(facts, rules[ruleIdx], r.derived, 1, 0, viaNeg)
       IN  IF r.err # ""
           THEN /\ pc' = "error"
                /\ evalErr' = r.err
                /\ dzSeen' = (dzSeen \/ r.dz)
                /\ UNCHANGED <<facts, ruleIdx, newFacts, viaNeg>>
           ELSE /\ WithinBounds(a.store)
                /\ facts' = a.store
                /\ newFacts' = newFacts + a.n
                /\ viaNeg' = a.via
                /\ ruleIdx' = ruleIdx + 1
                /\ dzSeen' = (dzSeen \/ r.dz)
                /\ UNCHANGED <<pc, evalErr>>
    /\ UNCHANGED <<rules, evalCalls, callStart, passStart, doneStore, passes,
                   inserted, prevOk>>
    /\ othersUnchanged

\* end of one iteration of the outer `for`
EndPass ==
    /\ pc = "eval"
    /\ ruleIdx > Len(rules)
    /\ passes' = passes + 1
    /\ IF FixpointReached(newFacts)
       THEN /\ pc' = "done"
            /\ doneStore' = facts
            /\ UNCHANGED <<ruleIdx, newFacts, passStart>>
       ELSE /\ ruleIdx' = 1
            /\ newFacts' = 0
            /\ passStart' = facts
            /\ UNCHANGED <<pc, doneStore>>
    /\ UNCHANGED <<facts, rules, evalCalls, evalErr, callStart, dzSeen, viaNeg,
                   inserted, prevOk>>
    /\ othersUnchanged

EngineNext == AddFactCall \/ AddRuleCall \/ EvaluateCall \/ EvalRule \/ EndPass

Spec == EngineInit /\ [][EngineNext]_vars

(***************************************************************************)
(* Properties of Engine.Evaluate.                                          *)
(***************************************************************************)
\* every list of store a is a prefix of the same list of store b
StorePrefix(a, b) ==
    \A p \in DOMAIN a :
       /\ Len(a[p]) <= Len(b[p])
       /\ SubSeq(b[p], 1, Len(a[p])) = a[p]

RuleHasClause(rule, kind) == \E i \in 1..Len(rule.Body) : rule.Body[i].c = kind
HasClause(rs, kind) == \E i \in 1..Len(rs) : RuleHasClause(rs[i], kind)

\* C1: during an Evaluate call the store only grows: the facts present when
\* the call started and when the current iteration started are still there,
\* unchanged and in place, and FactCount has not decreased.
C1_Monotone ==
    pc \in {"eval", "done", "error"} =>
        /\ StorePrefix(callStart, facts)
        /\ StorePrefix(passStart, facts)
        /\ FactCount(callStart) <= FactCount(passStart)
        /\ FactCount(passStart) <= FactCount(facts)

C1_Witness ==
    /\ pc = "eval"
    /\ passes >= 1
    /\ FactCount(passStart) > FactCount(callStart)
    /\ FactCount(facts) > FactCount(passStart)

\* membership in the store up to equality of facts
InStore(store, f) ==
    \E i \in 1..Len(store[f.Predicate]) : factsEqual(store[f.Predicate][i], f)

\* one more derivation pass over the store would add nothing
IsFixpoint(store, rs) ==
    \A i \in 1..Len(rs) :
       LET r == evaluateRule(store, rs[i])
       IN  /\ r.err = ""
           /\ \A j \in 1..Len(r.derived) : InStore(store, r.derived[j].fact)

\* C2: when Evaluate returns nil the store is a fixpoint of the rules, also
\* for rule sets with negation and aggregation.
C2_Fixpoint == pc = "done" => IsFixpoint(facts, rules)

C2_Witness ==
    /\ pc = "done"
    /\ HasClause(rules, "neg")
    /\ HasClause(rules, "agg")
    /\ passes >= 2
    /\ FactCount(facts) >= inserted + 2

PlainRules(rs) ==
    \A i \in 1..Len(rs) : \A j \in 1..Len(rs[i].Body) :
       rs[i].Body[j].c \in {"atom", "cmp", "neg"}

\* the values a rule set without assignment and aggregation can put into a
\* fact: those of the store at the start of the call and the rule constants
StoreValues(store) ==
    UNION { UNION { { store[p][i].Args[j] : j \in 1..Len(store[p][i].Args) }
                    : i \in 1..Len(store[p]) }
            : p \in DOMAIN store }

AtomConsts(a) == { a.Args[i].v : i \in { k \in 1..Len(a.Args) : a.Args[k].t = "const" } }

RuleConsts(rs) == UNION { AtomConsts(rs[i].Head) : i \in 1..Len(rs) }

RECURSIVE Pow(_, _)
Pow(b, e) == IF e = 0 THEN 1 ELSE b * Pow(b, e - 1)

RECURSIVE SumOver(_, _, _)
SumOver(S, n, rs) ==
    IF S = {} THEN 0
    ELSE LET i == CHOOSE x \in S : TRUE
         IN  Pow(n, Len(rs[i].Head.Args)) + SumOver(S \ {i}, n, rs)

\* the number of distinct tuples the rule heads can ever produce
TupleSpace(store, rs) ==
    SumOver(1..Len(rs), Cardinality(StoreValues(store) \cup RuleConsts(rs)), rs)

\* the facts appended since the call started are pairwise different and
\* different from every fact that was there before them
NoFactAppendedTwice(store0, store) ==
    \A p \in DOMAIN store : \A i \in 1..Len(store[p]) : \A j \in 1..Len(store[p]) :
       (i < j /\ j > Len(store0[p])) => ~factsEqual(store[p][i], store[p][j])

\* the next turn of the rule loop is inside the exploration bounds
CanStep ==
    LET r == evaluateRule(facts, rules[ruleIdx])
    IN  r.err # "" \/
        WithinBounds(addDerived(facts, rules[ruleIdx], r.derived, 1, 0, {}).store)

C5_DivZeroFatal ==
    dzSeen => /\ pc # "done"
              /\ pc = "error" => evalErr = "division by zero"

\* every rule that derives a predicate comes before every rule that negates it
ProducersBeforeConsumers(rs) ==
    \A i, j \in 1..Len(rs) :
       (\E k \in 1..Len(rs[j].Body) :
           /\ rs[j].Body[k].c = "neg"
           /\ rs[j].Body[k].atom.Predicate = rs[i].Head.Predicate) => i < j

\* C6: with producers placed before consumers, the final store holds no fact
\* derived through `not q(t)` together with q(t).
C6_StratifiedByOrder ==
    (pc = "done" /\ ProducersBeforeConsumers(rules)) =>
        \A v \in viaNeg : Len(evaluateAtom(facts, v.neg, EmptyBindings).bs) = 0

(***************************************************************************)
(* The overlap sweep of the fact builder (datalog/facts.go).               *)
(* An event is a record of its start time Ts and its duration Dur.         *)
(***************************************************************************)
TraceEvent(ts, dur) == [Ts |-> ts, Dur |-> dur]

\* the two time points of every event, in event order
timePoints(evs) ==
    Flatten([i \in 1..Len(evs) |->
               << [time |-> evs[i].Ts, isStart |-> TRUE],
                  [time |-> evs[i].Ts + evs[i].Dur, isStart |-> FALSE] >>])

\* variant: at equal times the end point goes first
outOfOrderEndsFirst(pi, pj) ==
    \/ pi.time > pj.time
    \/ (pi.time = pj.time /\ pi.isStart /\ ~pj.isStart)

\* the swap condition of the sort: later time, or same time with an end
\* point standing before a start point
outOfOrder(pi, pj) ==
    \/ pi.time > pj.time
    \/ (pi.time = pj.time /\ ~pi.isStart /\ pj.isStart)

swap(pts, i, j) == [pts EXCEPT ![i] = pts[j], ![j] = pts[i]]

\* `for j := i + 1; j < len(points); j++`
RECURSIVE sortInner(_, _, _)
sortInner(pts, i, j) ==
    IF j > Len(pts) THEN pts
    ELSE sortInner(IF outOfOrder(pts[i], pts[j]) THEN swap(pts, i, j) ELSE pts,
                   i, j + 1)

\* `for i := 0; i < len(points)-1; i++`
RECURSIVE sortPoints(_, _)
sortPoints(pts, i) ==
    IF i >= Len(pts) THEN pts ELSE sortPoints(sortInner(pts, i, i + 1), i + 1)

\* the sweep over the sorted points
RECURSIVE sweep(_, _, _, _)
sweep(pts, i, current, maxConcurrent) ==
    IF i > Len(pts) THEN maxConcurrent
    ELSE IF pts[i].isStart
    THEN sweep(pts, i + 1, current + 1,
               IF current + 1 > maxConcurrent THEN current + 1 ELSE maxConcurrent)
    ELSE sweep(pts, i + 1, current - 1, maxConcurrent)

computeMaxConcurrency(evs) ==
    IF Len(evs) = 0 THEN 0
    ELSE sweep(sortPoints(timePoints(evs), 1), 1, 0, 0)

\* scenario S3 of the specification
OverlapScenario == <<TraceEvent(0, 100), TraceEvent(50, 100), TraceEvent(120, 30)>>

EventLists ==
    UNION { [1..n -> { TraceEvent(ts, dur) : ts \in 0..MaxTs, dur \in 0..MaxDur }]
            : n \in 0..MaxEvents }
    \cup {OverlapScenario}

SweepInit ==
    /\ NewEngine
    /\ NoSuggestions
    /\ NoLoad
    /\ NoPure
    /\ events \in EventLists
    /\ maxConcurrency = 0
    /\ phase = "events"

\* GenerateFacts computes the argument of the max_concurrency fact
GenerateFacts ==
    /\ phase = "events"
    /\ maxConcurrency' = computeMaxConcurrency(events)
    /\ phase' = "facts"
    /\ UNCHANGED <<engineVars, events, suggVars, loadVars, pureVars>>

SweepNext == GenerateFacts

SweepSpec == SweepInit /\ [][SweepNext]_vars

Max(S) == CHOOSE x \in S : \A y \in S : y <= x

\* the times at which the number of running events can change
SweepTimes(evs) ==
    {0} \cup { evs[i].Ts : i \in 1..Len(evs) }
        \cup { evs[i].Ts + evs[i].Dur : i \in 1..Len(evs) }

\* most events running at one time, an event occupying [Ts, Ts+Dur)
HalfOpenOverlap(evs) ==
    Max({ Cardinality({ i \in 1..Len(evs) :
                          evs[i].Ts <= t /\ t < evs[i].Ts + evs[i].Dur })
          : t \in SweepTimes(evs) })

\* most events running at one time, an event occupying [Ts, Ts+Dur]
ClosedOverlap(evs) ==
    Max({ Cardinality({ i \in 1..Len(evs) :
                          evs[i].Ts <= t /\ t <= evs[i].Ts + evs[i].Dur })
          : t \in SweepTimes(evs) })

\* C7 as stated: max_concurrency is the largest number of events with
\* start <= t < start+dur over all t (events of positive duration).
C7_SweepHalfOpen ==
    (phase = "facts" /\ \A i \in 1..Len(events) : events[i].Dur > 0) =>
        maxConcurrency = HalfOpenOverlap(events)

\* C7 amended: for events of non-negative duration max_concurrency is the
\* largest number of events with start <= t <= start+dur over all t (an
\* event that ends at t counts together with one that starts at t), and it
\* is 2 for the events (0,100), (50,100), (120,30).
C7_SweepClosed ==
    phase = "facts" =>
        /\ maxConcurrency = ClosedOverlap(events)
        /\ events = OverlapScenario => maxConcurrency = 2

\* two events of positive duration, the second starting when the first ends
C7_Witness ==
    /\ phase = "facts"
    /\ Len(events) = 2
    /\ events[1].Dur > 0
    /\ events[2].Dur > 0
    /\ events[2].Ts = events[1].Ts + events[1].Dur
    /\ maxConcurrency = 2
    /\ events[1].Ts + events[1].Dur = events[2].Ts
    /\ maxConcurrency = 2

(***************************************************************************)
(* Ordering and deduplication of suggestions (suggestions/evaluator.go).   *)
(* A suggestion carries its rule id, impact and rendered target; ID stands *)
(* for the generated id "<rule>-<nanoseconds>" and is its position in      *)
(* generation order.                                                       *)
(***************************************************************************)
Suggestion(id, ruleId, impact, target) ==
    [ID |-> id, RuleID |-> ruleId, Impact |-> impact, Target |-> target]

impactOrder(impact) ==
    CASE impact = "high" -> 0
      [] impact = "medium" -> 1
      [] impact = "low" -> 2
      [] OTHER -> 3

\* the less function handed to sort.Slice
impactLess(a, b) == impactOrder(a.Impact) < impactOrder(b.Impact)

IndexPermutations(n) == { f \in [1..n -> 1..n] : \A i, j \in 1..n : i # j => f[i] # f[j] }

\* sort.Slice: some permutation ordered by less; the order of elements that
\* less does not separate is not specified ("not guaranteed to be stable")
sortSlice(list) ==
    { [i \in 1..Len(list) |-> list[f[i]]] : f \in
        { g \in IndexPermutations(Len(list)) :
            \A i, j \in 1..Len(list) : i < j => ~impactLess(list[g[j]], list[g[i]]) } }

\* variant: rule id and target are joined without a separator
dedupKeyNoSeparator(sg) == sg.RuleID \o sg.Target

\* `key := s.RuleID + ":" + s.Target`
dedupKey(sg) == sg.RuleID \o ":" \o sg.Target

RECURSIVE dedupFrom(_, _, _, _)
dedupFrom(list, i, seen, res) ==
    IF i > Len(list) THEN res
    ELSE IF dedupKey(list[i]) \notin seen
    THEN dedupFrom(list, i + 1, seen \cup {dedupKey(list[i])}, Append(res, list[i]))
    ELSE dedupFrom(list, i + 1, seen, res)

deduplicateSuggestions(list) == dedupFrom(list, 1, {}, << >>)

\* rule ids are identifier tokens (letters, digits, '_'); rendered targets
\* are arbitrary text such as Bazel labels
RuleIDs == {"a", "ab"}
Targets == {"c", "bc"}
Impacts == {"high", "medium", "low", "info"}

SuggestInit ==
    /\ NewEngine
    /\ NoSweep
    /\ NoLoad
    /\ NoPure
    /\ \E n \in 0..MaxSugg : \E f \in [1..n -> RuleIDs \X Impacts \X Targets] :
          generated = [i \in 1..n |-> Suggestion(i, f[i][1], f[i][2], f[i][3])]
    /\ sorted = << >>
    /\ suggestionsResult = NoResult
    /\ phase = "generated"

\* the tail of Evaluator.Evaluate: sort.Slice, deduplicateSuggestions and
\* the construction of the result
SortAndDeduplicate ==
    /\ phase = "generated"
    /\ \E srt \in sortSlice(generated) :
          /\ sorted' = srt
          /\ suggestionsResult' =
                       [Suggestions |-> deduplicateSuggestions(srt),
                        RulesEvaluated |-> Len(program.SuggestionRules),
                        FactsGenerated |-> FactCount(facts)]
    /\ phase' = "returned"
    /\ UNCHANGED <<engineVars, sweepVars, loadVars, pureVars, generated>>

SuggestNext == SortAndDeduplicate

SuggestSpec == SuggestInit /\ [][SuggestNext]_vars

SamePair(a, b) == a.RuleID = b.RuleID /\ a.Target = b.Target

\* the positions of `sorted` that hold the first suggestion of their pair
FirstOfPair(list) ==
    { i \in 1..Len(list) : \A j \in 1..(i - 1) : ~SamePair(list[j], list[i]) }

\* C8: no two returned suggestions share (ruleId, target); the returned
\* list is, in order, exactly the suggestions of the impact-sorted list that
\* are the first of their pair.
C8_Dedup ==
    phase = "returned" =>
        LET out == suggestionsResult.Suggestions
        IN  /\ \A i, j \in 1..Len(out) : i # j => ~SamePair(out[i], out[j])
            /\ \A k \in 1..Len(out) :
                  \E i \in FirstOfPair(sorted) : sorted[i] = out[k]
            /\ \A i \in FirstOfPair(sorted) :
                  \E k \in 1..Len(out) : out[k] = sorted[i]
            /\ \A k, l \in 1..Len(out) : k < l =>
                  \E i, j \in 1..Len(sorted) :
                     i < j /\ sorted[i] = out[k] /\ sorted[j] = out[l]

C8_Witness ==
    /\ phase = "returned"
    /\ Len(sorted) = 3
    /\ Len(suggestionsResult.Suggestions) = 2
    /\ SamePair(sorted[1], sorted[3])
    /\ sorted[2].RuleID # sorted[1].RuleID
    /\ sorted[2].Target # sorted[1].Target

\* C9: the returned suggestions are in non-decreasing impact rank and
\* suggestions of equal impact keep their generation order.
C9_StableSort ==
    phase = "returned" =>
        LET out == suggestionsResult.Suggestions
        IN  \A i, j \in 1..Len(out) : i < j =>
               /\ impactOrder(out[i].Impact) <= impactOrder(out[j].Impact)
               /\ impactOrder(out[i].Impact) = impactOrder(out[j].Impact)
                     => out[i].ID < out[j].ID

(***************************************************************************)
(* Rule loading and the evaluator run of main (suggestions/evaluator.go,   *)
(* main.go).  A rule file is represented by what datalog.Parse returns for *)
(* its text: an error, or the rules and suggestion rules of its program.   *)
(***************************************************************************)
Text(str) == [kind |-> "text", s |-> str]
BareVar(name) == [kind |-> "var", name |-> name]

SuggestionTemplate(type, impact, target) ==
    [Type |-> type, Impact |-> impact, Target |-> target]
SuggestionRule(id, conds, tmpl) ==
    [ID |-> id, Conditions |-> conds, Suggestion |-> tmpl]
Program(rs, srs) == [Rules |-> rs, SuggestionRules |-> srs]
RuleFile(ok, prog) == [ok |-> ok, program |-> prog]

\* formatValue: integral numbers as integers, other numbers with one
\* decimal (rounded half to even on the exact value), strings as they are
formatValue(val) ==
    CASE val.k = "s" -> val.s
      [] val.k = "nan" -> "NaN"
      [] val.k = "n" ->
            IF val.d = 1 THEN ToString(val.n)
            ELSE LET a   == Abs(val.n) * 10
                     q   == a \div val.d
                     rem == a % val.d
                     up  == 2 * rem > val.d \/ (2 * rem = val.d /\ q % 2 = 1)
                     t   == IF up THEN q + 1 ELSE q
                 IN  (IF val.n < 0 THEN "-" ELSE "")
                        \o ToString(t \div 10) \o "." \o ToString(t % 10)

\* renderTemplate on the two template shapes the model's rule files use: a
\* text without placeholders, and a template that is exactly one ?Name
renderTemplate(template, b) ==
    IF template.kind = "var"
    THEN IF Bound(b, template.name) THEN formatValue(b[template.name])
         ELSE template.name
    ELSE template.s

\* Evaluator.generateSuggestion
generateSuggestion(rule, b, id) ==
    Suggestion(id, rule.ID, rule.Suggestion.Impact,
               renderTemplate(rule.Suggestion.Target, b))

\* the loop of Evaluator.Evaluate over the suggestion rules; a rule whose
\* body evaluation fails is skipped
RECURSIVE generateAll(_, _, _, _)
generateAll(store, srs, i, acc) ==
    IF i > Len(srs) THEN acc
    ELSE LET r == evaluateBody(store, srs[i].Conditions, <<EmptyBindings>>)
         IN  IF r.err # "" THEN generateAll(store, srs, i + 1, acc)
             ELSE generateAll(store, srs, i + 1,
                     acc \o [k \in 1..Len(r.bs) |->
                               generateSuggestion(srs[i], r.bs[k], Len(acc) + k)])

\* GenerateFacts of a trace without events: the aggregate facts only
emptyTraceFacts ==
    << Fact("total_duration", <<Num(0)>>),
       Fact("total_action_time", <<Num(0)>>),
       Fact("total_actions", <<Num(0)>>),
       Fact("actionable_time", <<Num(0)>>),
       Fact("actionable_count", <<Num(0)>>),
       Fact("max_concurrency", <<Num(0)>>) >>

\* idle(?N) :- total_actions(?N), ?N = 0.
RuleIdle == Rule(Atom("idle", <<Var("?N")>>),
                 <<AtomClause(Atom("total_actions", <<Var("?N")>>)),
                   Comparison(Var("?N"), "=", Const(Num(0)))>>)
\* serial(?C) :- max_concurrency(?C), ?C < 2, idle(_).
RuleSerial == Rule(Atom("serial", <<Var("?C")>>),
                   <<AtomClause(Atom("max_concurrency", <<Var("?C")>>)),
                     Comparison(Var("?C"), "<", Const(Num(2))),
                     AtomClause(Atom("idle", <<Wild>>))>>)

\* rule empty_trace { when: idle(?N). then: suggestion(info, low, .., "trace"). }
SuggestEmptyTrace ==
    SuggestionRule("empty_trace", <<AtomClause(Atom("idle", <<Var("?N")>>))>>,
                   SuggestionTemplate("info", "low", Text("trace")))
\* rule serial_build { when: serial(?C). then: suggestion(warning, high, .., ?C). }
SuggestSerial ==
    SuggestionRule("serial_build", <<AtomClause(Atom("serial", <<Var("?C")>>))>>,
                   SuggestionTemplate("warning", "high", BareVar("?C")))
\* rule no_actions { when: actionable_count(?N), ?N = 0. then: suggestion(info, medium, .., ""). }
SuggestNoActions ==
    SuggestionRule("no_actions",
                   <<AtomClause(Atom("actionable_count", <<Var("?N")>>)),
                     Comparison(Var("?N"), "=", Const(Num(0)))>>,
                   SuggestionTemplate("info", "medium", Text("")))

NoProgram == Program(<< >>, << >>)

FileCatalog ==
    { RuleFile(TRUE, Program(<<RuleIdle>>, <<SuggestEmptyTrace>>)),
      RuleFile(TRUE, Program(<<RuleSerial>>, <<SuggestSerial>>)),
      RuleFile(TRUE, Program(<< >>, <<SuggestNoActions>>)),
      RuleFile(FALSE, NoProgram) }

\* Evaluator.loadEmbeddedRules: the walk stops at the first file that does
\* not parse and returns its error
RECURSIVE loadEmbeddedRules(_, _, _)
loadEmbeddedRules(fs, i, prog) ==
    IF i > Len(fs) THEN [program |-> prog, err |-> ""]
    ELSE IF ~fs[i].ok THEN [program |-> prog, err |-> "failed to parse"]
    ELSE loadEmbeddedRules(fs, i + 1,
            Program(prog.Rules \o fs[i].program.Rules,
                    prog.SuggestionRules \o fs[i].program.SuggestionRules))

\* Evaluator.loadExternalRules: the walk over the directory fails when the
\* directory cannot be read; for a `.dl` file the callback returns nil
\* without reading it
loadExternalRules(dir, prog) ==
    IF ~dir.exists THEN [program |-> prog, err |-> "failed to load external rules"]
    ELSE [program |-> prog, err |-> ""]

\* Evaluator.LoadRules without the final engine.LoadProgram
LoadRules(fs, dir, prog) ==
    LET external(r) ==
            IF r.err # "" THEN r
            ELSE IF dir.set THEN loadExternalRules(dir, r.program)
            ELSE r
    IN  external(loadEmbeddedRules(fs, 1, prog))

\* the external rules directories of the exploration: none, one that does
\* not exist, and existing ones holding rule files that parse
RulesDirs ==
    {NoRulesDir, [set |-> TRUE, exists |-> FALSE, files |-> << >>]}
    \cup { [set |-> TRUE, exists |-> TRUE, files |-> <<f>>]
            : f \in { g \in FileCatalog : g.ok } }

LoadInit ==
    /\ NewEngine
    /\ NoSweep
    /\ NoSuggestions
    /\ NoPure
    /\ rulesDir \in RulesDirs
    /\ \E n \in 0..MaxFiles : files \in [1..n -> FileCatalog]
    /\ program = NoProgram
    /\ loadErr = ""
    /\ warnings = << >>
    /\ phase = "start"

\* main: evaluator.LoadRules(), a failure is logged as a warning.
\* LoadRules hands the program to the engine only when no file failed.
MainLoadRules ==
    /\ phase = "start"
    /\ LET r == LoadRules(files, rulesDir, program)
       IN  /\ program' = r.program
           /\ loadErr' = r.err
           /\ IF r.err = ""
              THEN /\ rules' = rules \o r.program.Rules
                   /\ UNCHANGED warnings
              ELSE /\ warnings' = Append(warnings, "Failed to load rules")
                   /\ UNCHANGED rules
    /\ phase' = "loaded"
    /\ UNCHANGED <<facts, pc, ruleIdx, newFacts, evalCalls, evalErr, callStart,
                   passStart, doneStore, dzSeen, viaNeg, passes, inserted, prevOk>>
    /\ UNCHANGED <<sweepVars, suggVars, pureVars, files, rulesDir>>

\* Evaluator.Evaluate up to the call of Engine.Evaluate
EvaluatorEvaluate ==
    /\ phase = "loaded"
    /\ facts' = AddFacts(facts, emptyTraceFacts)
    /\ pc' = "eval"
    /\ evalCalls' = evalCalls + 1
    /\ prevOk' = (pc = "done")
    /\ ruleIdx' = 1
    /\ newFacts' = 0
    /\ passes' = 0
    /\ evalErr' = ""
    /\ dzSeen' = FALSE
    /\ callStart' = facts'
    /\ passStart' = facts'
    /\ inserted' = inserted + Len(emptyTraceFacts)
    /\ phase' = "evaluating"
    /\ UNCHANGED <<rules, doneStore, viaNeg>>
    /\ UNCHANGED <<sweepVars, suggVars, pureVars, loadVars>>

\* Evaluator.Evaluate after Engine.Evaluate returned, and main's handling of
\* its result
EvaluatorReturn ==
    /\ phase = "evaluating"
    /\ pc \in {"done", "error"}
    /\ IF pc = "error"
       THEN /\ warnings' = Append(warnings, "Failed to evaluate rules")
            /\ suggestionsResult' = NoResult
            /\ UNCHANGED <<generated, sorted>>
       ELSE /\ generated' = generateAll(facts, program.SuggestionRules, 1, << >>)
            /\ \E srt \in sortSlice(generated') :
                  /\ sorted' = srt
                  /\ suggestionsResult' =
                        [Suggestions |-> deduplicateSuggestions(srt),
                         RulesEvaluated |-> Len(program.SuggestionRules),
                         FactsGenerated |-> FactCount(facts)]
            /\ UNCHANGED warnings
    /\ phase' = "finished"
    /\ UNCHANGED <<engineVars, sweepVars, pureVars, files, program, loadErr, rulesDir>>

LoadNext ==
    MainLoadRules \/ EvaluatorEvaluate \/ EvalRule \/ EndPass \/ EvaluatorReturn

LoadSpec == LoadInit /\ [][LoadNext]_vars

InSeq(x, sq) == \E i \in 1..Len(sq) : sq[i] = x

\* C10: a file that fails to parse is skipped and reported: the rules of
\* every file that parsed are in the program, its derivation rules are in
\* the engine, Evaluate ran with them, and the failure was logged.
C10_BadFileSkipped ==
    (phase = "finished" /\ ~rulesDir.set) =>
        /\ \A i \in 1..Len(files) : files[i].ok =>
              /\ \A k \in 1..Len(files[i].program.Rules) :
                    InSeq(files[i].program.Rules[k], rules)
              /\ \A k \in 1..Len(files[i].program.SuggestionRules) :
                    InSeq(files[i].program.SuggestionRules[k], program.SuggestionRules)
        /\ suggestionsResult.RulesEvaluated = Len(program.SuggestionRules)
        /\ (\E i \in 1..Len(files) : ~files[i].ok) => Len(warnings) = 1

\* C11: with an external rules directory configured, the rules of every
\* `.dl` file in it are in the program after LoadRules, its derivation rules
\* are in the engine, and Evaluate counts its suggestion rules.
C11_ExternalRulesLoaded ==
    (phase = "finished" /\ rulesDir.set /\ rulesDir.exists /\ loadErr = "") =>
        \A i \in 1..Len(rulesDir.files) :
           /\ \A k \in 1..Len(rulesDir.files[i].program.Rules) :
                 InSeq(rulesDir.files[i].program.Rules[k], rules)
           /\ \A k \in 1..Len(rulesDir.files[i].program.SuggestionRules) :
                 InSeq(rulesDir.files[i].program.SuggestionRules[k],
                       program.SuggestionRules)

(***************************************************************************)
(* Rule heads that cannot be instantiated (Engine.instantiateAtom).        *)
(***************************************************************************)
HeadsInit ==
    /\ NewEngine
    /\ phase = "heads"
    /\ EngineIdle

HeadsSpec == HeadsInit /\ [][EngineNext]_vars

\* a value, as opposed to a term of a rule
IsValue(x) == "k" \in DOMAIN x /\ x.k \in {"n", "s", "nan"}

\* the variables a rule body binds
BodyVars(rule) ==
    UNION { CASE rule.Body[i].c = "atom" ->
                   { rule.Body[i].atom.Args[j].name
                     : j \in { k \in 1..Len(rule.Body[i].atom.Args)
                               : rule.Body[i].atom.Args[k].t = "var" } }
              [] rule.Body[i].c = "assign" -> {rule.Body[i].var}
              [] rule.Body[i].c = "agg" -> {rule.Body[i].into}
              [] OTHER -> {}
            : i \in 1..Len(rule.Body) }

\* every head term is a constant or a variable that the body binds
HeadResolvable(rule) ==
    \A i \in 1..Len(rule.Head.Args) :
       \/ rule.Head.Args[i].t = "const"
       \/ rule.Head.Args[i].t = "var" /\ rule.Head.Args[i].name \in BodyVars(rule)

\* the fact is an instance of the head of the rule
InstanceOfHead(f, rule) ==
    /\ f.Predicate = rule.Head.Predicate
    /\ Len(f.Args) = Len(rule.Head.Args)
    /\ \A i \in 1..Len(f.Args) :
          rule.Head.Args[i].t = "const" => f.Args[i] = rule.Head.Args[i].v

\* C12: every fact of the store is ground; a fact that Evaluate added is an
\* instance of the head of a rule whose head terms all resolve, so a head
\* with an unbound variable or a wildcard adds nothing; such a head is no
\* error, and the rules around it are evaluated as usual (the store is a
\* fixpoint of all rules when Evaluate returns).
C12_GroundHeads ==
    phase = "heads" =>
        /\ \A p \in DOMAIN facts : \A i \in 1..Len(facts[p]) :
              /\ \A j \in 1..Len(facts[p][i].Args) : IsValue(facts[p][i].Args[j])
              /\ (pc # "idle" /\ i > Len(callStart[p])) =>
                    \E k \in 1..Len(rules) :
                       /\ HeadResolvable(rules[k])
                       /\ InstanceOfHead(facts[p][i], rules[k])
        /\ (pc \in {"eval", "done", "error"} /\ Len(facts["h"]) > 0) =>
              Len(callStart["h"]) > 0
        /\ pc # "error" /\ evalErr = ""
        /\ pc = "done" => IsFixpoint(facts, rules)

C12_Witness ==
    /\ phase = "heads"
    /\ pc = "done"
    /\ Len(rules) = 2
    /\ rules[1] \in {RuleUnboundHead, RuleWildHead}
    /\ Len(evaluateBody(facts, rules[1].Body, <<EmptyBindings>>).bs) >= 2
    /\ facts["h"] = << >>
    /\ FactCount(facts) > inserted

\* some fact occurs twice in the store
HasDuplicate(store) ==
    \E p \in DOMAIN store : \E i, j \in 1..Len(store[p]) :
       i < j /\ factsEqual(store[p][i], store[p][j])

\* C13: AddFact appends without looking (every direct insertion makes the
\* store one longer, duplicates included, and Evaluate leaves them in
\* place), while Evaluate appends a derived fact only if no equal fact is
\* in the store.
C13_DuplicateFiltering ==
    phase = "engine" =>
        /\ pc = "idle" => FactCount(facts) = inserted
        /\ pc # "idle" =>
              /\ evalCalls = 1 => FactCount(callStart) = inserted
              /\ SubSeq(facts["q"], 1, Len(callStart["q"])) = callStart["q"]
              /\ SubSeq(facts["e"], 1, Len(callStart["e"])) = callStart["e"]
              /\ \A p \in DOMAIN facts :
                    \A j \in (Len(callStart[p]) + 1)..Len(facts[p]) :
                       \A i \in 1..(j - 1) : ~factsEqual(facts[p][i], facts[p][j])

C13_Witness ==
    /\ phase = "engine"
    /\ pc = "done"
    /\ HasDuplicate(callStart)
    /\ HasDuplicate(facts)
    /\ FactCount(facts) > inserted
    /\ \E k \in 1..Len(rules) :
          \E j \in 1..Len(evaluateRule(callStart, rules[k]).derived) :
             InStore(callStart, evaluateRule(callStart, rules[k]).derived[j].fact)

(***************************************************************************)
(* The lexer (datalog/lexer.go).  A source text is a sequence of           *)
(* characters; the rune 0 that peek returns at the end of the input is "". *)
(***************************************************************************)
Digits == {"0", "1", "2", "3", "4", "5", "6", "7", "8", "9"}
Letters == {"a", "b", "c", "d", "e", "f", "g", "h", "i", "j", "k", "l", "m",
            "n", "o", "p", "q", "r", "s", "t", "u", "v", "w", "x", "y", "z",
            "A", "B", "C", "D", "E", "F", "G", "H", "I", "J", "K", "L", "M",
            "N", "O", "P", "Q", "R", "S", "T", "U", "V", "W", "X", "Y", "Z"}

\* the keyword table, each word as its sequence of characters
keywords ==
    LET word(w, typ) == [word |-> w, typ |-> typ]
    IN  { word(<<"r", "u", "l", "e">>, "TokenRule"),
          word(<<"w", "h", "e", "n">>, "TokenWhen"),
          word(<<"t", "h", "e", "n">>, "TokenThen"),
          word(<<"s", "u", "g", "g", "e", "s", "t", "i", "o", "n">>, "TokenSuggestion"),
          word(<<"a", "g", "g", "r", "e", "g", "a", "t", "e">>, "TokenAggregate"),
          word(<<"n", "o", "t">>, "TokenNot"),
          word(<<"c", "o", "u", "n", "t">>, "TokenCount"),
          word(<<"s", "u", "m">>, "TokenSum"),
          word(<<"m", "a", "x">>, "TokenMax"),
          word(<<"m", "i", "n">>, "TokenMin"),
          word(<<"a", "v", "g">>, "TokenAvg") }

\* `keywords[value]`, "TokenIdent" when the word is no keyword
keywordOr(value) ==
    IF \E k \in keywords : k.word = value
    THEN (CHOOSE k \in keywords : k.word = value).typ
    ELSE "TokenIdent"

Token(typ, value, line, column) ==
    [Type |-> typ, Value |-> value, Line |-> line, Column |-> column]

NewLexer == [pos |-> 0, line |-> 1, column |-> 1]

\* Lexer.peekN (peek is peekN(0))
peekN(inp, l, n) == IF l.pos + n >= Len(inp) THEN "" ELSE inp[l.pos + n + 1]

\* Lexer.advance
advance(inp, l) ==
    IF l.pos >= Len(inp) THEN l
    ELSE IF inp[l.pos + 1] = "\n"
    THEN [pos |-> l.pos + 1, line |-> l.line + 1, column |-> 1]
    ELSE [pos |-> l.pos + 1, line |-> l.line, column |-> l.column + 1]

isIdentStart(ch) == ch \in Letters \/ ch = "_"
IdentChars == Letters \cup Digits \cup {"_"}
isIdentChar(ch) == ch \in IdentChars

\* the comment loop of skipWhitespace
RECURSIVE skipComment(_, _)
skipComment(inp, l) ==
    IF peekN(inp, l, 0) # "\n" /\ peekN(inp, l, 0) # ""
    THEN skipComment(inp, advance(inp, l))
    ELSE l

\* Lexer.skipWhitespace
RECURSIVE skipWhitespace(_, _)
skipWhitespace(inp, l) ==
    IF peekN(inp, l, 0) \in {" ", "\t", "\n", "\r"}
    THEN skipWhitespace(inp, advance(inp, l))
    ELSE IF peekN(inp, l, 0) = "%"
    THEN skipWhitespace(inp, skipComment(inp, l))
    ELSE l

\* `for isIdentChar(l.peek()) { sb.WriteRune(l.advance()) }`, and the same
\* loop with unicode.IsDigit
RECURSIVE scanWhile(_, _, _, _)
scanWhile(inp, l, class, sb) ==
    IF peekN(inp, l, 0) \in class
    THEN scanWhile(inp, advance(inp, l), class, Append(sb, peekN(inp, l, 0)))
    ELSE [l |-> l, sb |-> sb]

IsDigit(ch) == ch \in Digits

\* Lexer.scanVariable (the '?' is already consumed)
scanVariable(inp, l) ==
    LET done(r) == [tok |-> Token("TokenVariable", r.sb, l.line, l.column - 1),
                    l |-> r.l]
    IN  done(scanWhile(inp, l, IdentChars, <<"?">>))

\* the loop of scanString
RECURSIVE scanStringBody(_, _, _, _, _)
scanStringBody(inp, l, sb, startLine, startCol) ==
    LET ch == peekN(inp, l, 0)
        escaped == peekN(inp, l, 1)
    IN  IF ch = ""
        THEN [tok |-> Token("TokenError", "unterminated string", startLine, startCol),
              l |-> l]
        ELSE IF ch = "\""
        THEN [tok |-> Token("TokenString", sb, startLine, startCol),
              l |-> advance(inp, l)]
        ELSE IF ch = "\\"
        THEN scanStringBody(inp, advance(inp, advance(inp, l)),
                            Append(sb, CASE escaped = "n" -> "\n"
                                         [] escaped = "t" -> "\t"
                                         [] escaped = "r" -> "\r"
                                         [] OTHER -> escaped),
                            startLine, startCol)
        ELSE scanStringBody(inp, advance(inp, l), Append(sb, ch), startLine, startCol)

\* Lexer.scanString
scanString(inp, l) == scanStringBody(inp, advance(inp, l), << >>, l.line, l.column)

\* Lexer.scanNumber
scanNumber(inp, l, prefix) ==
    LET fraction(r) ==
            IF peekN(inp, r.l, 0) = "." /\ IsDigit(peekN(inp, r.l, 1))
            THEN scanWhile(inp, advance(inp, r.l), Digits, Append(r.sb, "."))
            ELSE r
        done(r) == [tok |-> Token("TokenNumber", r.sb, l.line, l.column), l |-> r.l]
        whole(r) == done(fraction(r))
    IN  whole(scanWhile(inp, l, Digits, prefix))

\* Lexer.scanIdentifier
scanIdentifier(inp, l) ==
    LET done(r) ==
            [tok |-> Token(keywordOr(r.sb), r.sb, l.line, l.column), l |-> r.l]
    IN  done(scanWhile(inp, l, IdentChars, << >>))

\* the single character tokens
singleCharTokens ==
    [ch \in {"(", ")", "[", "]", "{", "}", ",", ".", "+", "*", "/"} |->
        CASE ch = "(" -> "TokenLParen"
          [] ch = ")" -> "TokenRParen"
          [] ch = "[" -> "TokenLBracket"
          [] ch = "]" -> "TokenRBracket"
          [] ch = "{" -> "TokenLBrace"
          [] ch = "}" -> "TokenRBrace"
          [] ch = "," -> "TokenComma"
          [] ch = "." -> "TokenDot"
          [] ch = "+" -> "TokenPlus"
          [] ch = "*" -> "TokenStar"
          [] ch = "/" -> "TokenSlash"]

\* nextToken after skipWhitespace
scanToken(inp, l) ==
    LET ch == peekN(inp, l, 0)
        next == peekN(inp, l, 1)
        one == advance(inp, l)
        two == advance(inp, one)
        at(typ, value, after) == [tok |-> Token(typ, value, l.line, l.column), l |-> after]
    IN  IF l.pos >= Len(inp) THEN at("TokenEOF", << >>, l)
        ELSE IF ch \in DOMAIN singleCharTokens THEN at(singleCharTokens[ch], <<ch>>, one)
        ELSE IF ch = ":"
        THEN IF next = "-" THEN at("TokenImplies", <<":", "-">>, two) ELSE at("TokenColon", <<":">>, one)
        ELSE IF ch = "!"
        THEN IF next = "=" THEN at("TokenNeq", <<"!", "=">>, two)
             ELSE at("TokenError", "unexpected '!'", one)
        ELSE IF ch = "<"
        THEN IF next = "=" THEN at("TokenLte", <<"<", "=">>, two) ELSE at("TokenLt", <<"<">>, one)
        ELSE IF ch = ">"
        THEN IF next = "=" THEN at("TokenGte", <<">", "=">>, two) ELSE at("TokenGt", <<">">>, one)
        ELSE IF ch = "=" THEN at("TokenEq", <<"=">>, one)
        ELSE IF ch = "-"
        THEN IF IsDigit(next) THEN scanNumber(inp, one, <<"-">>)
             ELSE at("TokenMinus", <<"-">>, one)
        ELSE IF ch = "_" /\ ~isIdentChar(next) THEN at("TokenWildcard", <<"_">>, one)
        ELSE IF ch = "?" THEN scanVariable(inp, one)
        ELSE IF ch = "\"" THEN scanString(inp, l)
        ELSE IF IsDigit(ch) THEN scanNumber(inp, l, << >>)
        ELSE IF isIdentStart(ch) THEN scanIdentifier(inp, l)
        ELSE at("TokenError", "unexpected character '" \o ch \o "'", one)

\* Lexer.nextToken
nextToken(inp, l) == scanToken(inp, skipWhitespace(inp, l))

\* the loop of Tokenize
RECURSIVE tokenizeFrom(_, _, _)
tokenizeFrom(inp, l, tokens) ==
    LET step(r) ==
            IF r.tok.Type = "TokenEOF"
            THEN [tokens |-> Append(tokens, r.tok), err |-> ""]
            ELSE IF r.tok.Type = "TokenError"
            THEN [tokens |-> << >>,
                  err |-> "lexer error at " \o ToString(r.tok.Line) \o ":"
                          \o ToString(r.tok.Column) \o ": " \o r.tok.Value]
            ELSE tokenizeFrom(inp, r.l, Append(tokens, r.tok))
    IN  step(nextToken(inp, l))

\* Lexer.Tokenize
Tokenize(inp) == tokenizeFrom(inp, NewLexer, << >>)

(***************************************************************************)
(* The String methods of the AST (datalog/types.go).  Names and string     *)
(* constants of a parsed program are sequences of characters; a Constant   *)
(* carries the dynamic type of its Value.                                  *)
(***************************************************************************)
Constant(v, typ) == [t |-> "const", v |-> v, type |-> typ]
Bool(b) == [k |-> "b", b |-> b]

DigitChars == <<"0", "1", "2", "3", "4", "5", "6", "7", "8", "9">>

\* the character of a byte of a printed number
RuneOf(b) == CASE b = 45 -> "-" [] b = 46 -> "." [] OTHER -> DigitChars[b - 47]

\* strconv.Quote (the %q verb) on the characters of the model's texts
RECURSIVE Quote(_)
Quote(s) ==
    IF s = << >> THEN << >>
    ELSE (CASE Head(s) = "\"" -> <<"\\", "\"">>
            [] Head(s) = "\\" -> <<"\\", "\\">>
            [] Head(s) = "\n" -> <<"\\", "n">>
            [] Head(s) = "\t" -> <<"\\", "t">>
            [] Head(s) = "\r" -> <<"\\", "r">>
            [] Head(s) = "\f" -> <<"\\", "f">>
            [] OTHER -> <<Head(s)>>) \o Quote(Tail(s))

\* Constant.String
ConstantString(c) ==
    CASE c.type = "string" -> <<"\"">> \o Quote(c.v.s) \o <<"\"">>
      [] c.type = "bool" -> IF c.v.b THEN <<"t", "r", "u", "e">>
                            ELSE <<"f", "a", "l", "s", "e">>
      [] OTHER -> [i \in 1..Len(SprintBytes(c.v)) |-> RuneOf(SprintBytes(c.v)[i])]

\* Variable.String, Constant.String, Wildcard.String
TermString(term) ==
    CASE term.t = "var" -> term.name
      [] term.t = "wild" -> <<"_">>
      [] term.t = "const" -> ConstantString(term)

\* strings.Join(parts, ", ")
RECURSIVE Join(_)
Join(parts) ==
    IF parts = << >> THEN << >>
    ELSE IF Len(parts) = 1 THEN parts[1]
    ELSE parts[1] \o <<",", " ">> \o Join(Tail(parts))

\* Atom.String
AtomString(a) ==
    a.Predicate \o <<"(">> \o Join([i \in 1..Len(a.Args) |-> TermString(a.Args[i])])
                \o <<")">>

\* the text of a ComparisonOp, ArithOp or AggregateOp
OpText(op) ==
    CASE op = "!=" -> <<"!", "=">>
      [] op = "<=" -> <<"<", "=">>
      [] op = ">=" -> <<">", "=">>
      [] op = "count" -> <<"c", "o", "u", "n", "t">>
      [] op = "sum" -> <<"s", "u", "m">>
      [] op = "max" -> <<"m", "a", "x">>
      [] op = "min" -> <<"m", "i", "n">>
      [] op = "avg" -> <<"a", "v", "g">>
      [] OTHER -> <<op>>

\* TermExpr.String, BinaryExpr.String, FunctionCall.String
RECURSIVE ExprString(_)
ExprString(expr) ==
    CASE expr.e = "term" -> TermString(expr.term)
      [] expr.e = "bin" ->
            <<"(">> \o ExprString(expr.left) \o <<" ">> \o OpText(expr.op) \o <<" ">>
                    \o ExprString(expr.right) \o <<")">>
      [] expr.e = "call" ->
            expr.name \o <<"(">>
                \o Join([i \in 1..Len(expr.args) |-> ExprString(expr.args[i])])
                \o <<")">>

\* the String method of each clause type
RECURSIVE ClauseString(_)
ClauseString(clause) ==
    CASE clause.c = "atom" -> AtomString(clause.atom)
      [] clause.c = "cmp" ->
            TermString(clause.left) \o <<" ">> \o OpText(clause.op) \o <<" ">>
                \o TermString(clause.right)
      [] clause.c = "assign" -> clause.var \o <<" ", "=", " ">> \o ExprString(clause.expr)
      [] clause.c = "neg" -> <<"n", "o", "t", " ">> \o AtomString(clause.atom)
      [] clause.c = "agg" ->
            <<"a", "g", "g", "r", "e", "g", "a", "t", "e", "(">> \o OpText(clause.op)
                \o <<"(">> \o clause.var \o <<")", ",", " ">>
                \o Join([i \in 1..Len(clause.body) |-> ClauseString(clause.body[i])])
                \o <<",", " ">> \o clause.into \o <<")">>

\* Rule.String
RuleString(r) ==
    IF Len(r.Body) = 0 THEN AtomString(r.Head) \o <<".">>
    ELSE AtomString(r.Head) \o <<" ", ":", "-", " ">>
            \o Join([i \in 1..Len(r.Body) |-> ClauseString(r.Body[i])]) \o <<".">>

(***************************************************************************)
(* The parser (datalog/parser.go).  Every parse function takes the tokens  *)
(* and the position of the parser and returns the value it parsed, the     *)
(* error ("" = nil) and the position after it.  Error texts name a token   *)
(* type by its constant.                                                   *)
(***************************************************************************)
Ok(v, pos) == [v |-> v, err |-> "", pos |-> pos]
Err(msg) == [v |-> << >>, err |-> msg, pos |-> 0]

\* `x, err := f(); if err != nil { return ..., err }`, then the rest
Bind(r, rest(_)) == IF r.err # "" THEN r ELSE rest(r)

\* Parser.peekN (peek is peekN(0))
peekTok(ts, p, n) ==
    IF p + n >= Len(ts) THEN Token("TokenEOF", << >>, 0, 0) ELSE ts[p + n + 1]

atPos(tok) == " at " \o ToString(tok.Line) \o ":" \o ToString(tok.Column)

\* Parser.expect
expect(ts, p, typ) ==
    IF peekTok(ts, p, 0).Type # typ
    THEN Err("expected " \o typ \o ", got " \o peekTok(ts, p, 0).Type
                \o atPos(peekTok(ts, p, 0)))
    ELSE Ok(peekTok(ts, p, 0), p + 1)

\* consecutive calls of expect, each returning its error at once; the value
\* is the sequence of the tokens consumed
RECURSIVE expectAll(_, _, _, _)
expectAll(ts, p, types, toks) ==
    IF types = << >> THEN Ok(toks, p)
    ELSE Bind(expect(ts, p, Head(types)),
              LAMBDA r : expectAll(ts, r.pos, Tail(types), Append(toks, r.v)))

\* Parser.match: the position after an optional token
match(ts, p, typ) == IF peekTok(ts, p, 0).Type = typ THEN p + 1 ELSE p

DigitValue(ch) == CHOOSE i \in 0..9 : DigitChars[i + 1] = ch

RECURSIVE Atoi(_, _)
Atoi(s, acc) == IF s = << >> THEN acc ELSE Atoi(Tail(s), acc * 10 + DigitValue(Head(s)))

\* strconv.ParseInt, then strconv.ParseFloat, on the text of a number token
\* ([-]digits[.digits]; values stay inside the int64 range)
parseNumber(value) ==
    LET neg  == value[1] = "-"
        body == IF neg THEN Tail(value) ELSE value
        dots == { i \in 1..Len(body) : body[i] = "." }
        sign(n) == IF neg THEN -n ELSE n
    IN  IF dots = {}
        THEN Constant(Num(sign(Atoi(body, 0))), "int64")
        ELSE LET dot  == CHOOSE i \in dots : TRUE
                 frac == SubSeq(body, dot + 1, Len(body))
             IN  Constant(Frac(sign(Atoi(SubSeq(body, 1, dot - 1) \o frac, 0)),
                               Pow(10, Len(frac))),
                          "float64")

\* Parser.parseTerm
parseTerm(ts, p) ==
    LET tok == peekTok(ts, p, 0)
    IN  CASE tok.Type = "TokenVariable" -> Ok(Var(tok.Value), p + 1)
          [] tok.Type = "TokenWildcard" -> Ok(Wild, p + 1)
          [] tok.Type = "TokenString" -> Ok(Constant(Str(tok.Value), "string"), p + 1)
          [] tok.Type = "TokenNumber" -> Ok(parseNumber(tok.Value), p + 1)
          [] tok.Type = "TokenIdent" ->
                IF tok.Value = <<"t", "r", "u", "e">>
                THEN Ok(Constant(Bool(TRUE), "bool"), p + 1)
                ELSE IF tok.Value = <<"f", "a", "l", "s", "e">>
                THEN Ok(Constant(Bool(FALSE), "bool"), p + 1)
                ELSE Ok(Constant(Str(tok.Value), "string"), p + 1)
          [] OTHER -> Err("expected term, got " \o tok.Type \o atPos(tok))

RECURSIVE parseExpression(_, _)
RECURSIVE additiveLoop(_, _, _)
RECURSIVE parseMultiplicative(_, _)
RECURSIVE multiplicativeLoop(_, _, _)
RECURSIVE parsePrimary(_, _)
RECURSIVE callArgs(_, _, _)
RECURSIVE parseFunctionCall(_, _)

\* the loop of parseFunctionCall over the arguments
callArgs(ts, p, args) ==
    IF peekTok(ts, p, 0).Type = "TokenRParen" THEN Ok(args, p)
    ELSE Bind(parseExpression(ts, p),
              LAMBDA r : IF peekTok(ts, r.pos, 0).Type = "TokenComma"
                         THEN callArgs(ts, r.pos + 1, Append(args, r.v))
                         ELSE Ok(Append(args, r.v), r.pos))

\* Parser.parseFunctionCall
parseFunctionCall(ts, p) ==
    Bind(expect(ts, p + 1, "TokenLParen"),
         LAMBDA open : Bind(callArgs(ts, open.pos, << >>),
         LAMBDA args : Bind(expect(ts, args.pos, "TokenRParen"),
         LAMBDA close : Ok(FunctionCall(peekTok(ts, p, 0).Value, args.v), close.pos))))

\* Parser.parsePrimary
parsePrimary(ts, p) ==
    IF peekTok(ts, p, 0).Type = "TokenLParen"
    THEN Bind(parseExpression(ts, p + 1),
              LAMBDA e : Bind(expect(ts, e.pos, "TokenRParen"),
              LAMBDA close : Ok(e.v, close.pos)))
    ELSE IF peekTok(ts, p, 0).Type = "TokenIdent"
            /\ peekTok(ts, p, 1).Type = "TokenLParen"
    THEN parseFunctionCall(ts, p)
    ELSE Bind(parseTerm(ts, p), LAMBDA t : Ok(TermExpr(t.v), t.pos))

\* Parser.parseUnary
parseUnary(ts, p) == parsePrimary(ts, p)

\* the operator of a token of parseMultiplicative ("" for any other token)
multiplicativeOp(typ) ==
    CASE typ = "TokenStar" -> "*"
      [] typ = "TokenSlash" -> "/"
      [] typ = "TokenPercent" -> "%"
      [] OTHER -> ""

\* the loop of parseMultiplicative
multiplicativeLoop(ts, p, left) ==
    IF multiplicativeOp(peekTok(ts, p, 0).Type) = "" THEN Ok(left, p)
    ELSE Bind(parseUnary(ts, p + 1),
              LAMBDA r : multiplicativeLoop(ts, r.pos,
                            BinaryExpr(left, multiplicativeOp(peekTok(ts, p, 0).Type),
                                       r.v)))

\* Parser.parseMultiplicative
parseMultiplicative(ts, p) ==
    Bind(parseUnary(ts, p), LAMBDA r : multiplicativeLoop(ts, r.pos, r.v))

\* the operator of a token of parseAdditive ("" for any other token)
additiveOp(typ) ==
    CASE typ = "TokenPlus" -> "+"
      [] typ = "TokenMinus" -> "-"
      [] OTHER -> ""

\* the loop of parseAdditive
additiveLoop(ts, p, left) ==
    IF additiveOp(peekTok(ts, p, 0).Type) = "" THEN Ok(left, p)
    ELSE Bind(parseMultiplicative(ts, p + 1),
              LAMBDA r : additiveLoop(ts, r.pos,
                            BinaryExpr(left, additiveOp(peekTok(ts, p, 0).Type), r.v)))

\* Parser.parseAdditive
parseAdditive(ts, p) ==
    Bind(parseMultiplicative(ts, p), LAMBDA r : additiveLoop(ts, r.pos, r.v))

\* Parser.parseExpression
parseExpression(ts, p) == parseAdditive(ts, p)

\* the loop of parseAtom over the arguments
RECURSIVE atomArgs(_, _, _)
atomArgs(ts, p, args) ==
    IF peekTok(ts, p, 0).Type = "TokenRParen" THEN Ok(args, p)
    ELSE Bind(parseTerm(ts, p),
              LAMBDA r : IF peekTok(ts, r.pos, 0).Type = "TokenComma"
                         THEN atomArgs(ts, r.pos + 1, Append(args, r.v))
                         ELSE Ok(Append(args, r.v), r.pos))

\* Parser.parseAtom
parseAtom(ts, p) ==
    Bind(expectAll(ts, p, <<"TokenIdent", "TokenLParen">>, << >>),
         LAMBDA open : Bind(atomArgs(ts, open.pos, << >>),
         LAMBDA args : Bind(expect(ts, args.pos, "TokenRParen"),
         LAMBDA close : Ok(Atom(open.v[1].Value, args.v), close.pos))))

ComparisonTokens ==
    {"TokenEq", "TokenNeq", "TokenLt", "TokenLte", "TokenGt", "TokenGte"}
isComparisonOp(typ) == typ \in ComparisonTokens

tokenToComparisonOp(typ) ==
    CASE typ = "TokenEq" -> "="
      [] typ = "TokenNeq" -> "!="
      [] typ = "TokenLt" -> "<"
      [] typ = "TokenLte" -> "<="
      [] typ = "TokenGt" -> ">"
      [] typ = "TokenGte" -> ">="
      [] OTHER -> ""

tokenToAggregateOp(typ) ==
    CASE typ = "TokenCount" -> "count"
      [] typ = "TokenSum" -> "sum"
      [] typ = "TokenMax" -> "max"
      [] typ = "TokenMin" -> "min"
      [] typ = "TokenAvg" -> "avg"
      [] OTHER -> ""

\* Parser.parseAssignmentOrComparison
parseAssignmentOrComparison(ts, p) ==
    Bind(parseExpression(ts, p + 2),
         LAMBDA r : IF r.v.e = "term"
                    THEN Ok(Comparison(Var(peekTok(ts, p, 0).Value), "=", r.v.term), r.pos)
                    ELSE Ok(Assignment(peekTok(ts, p, 0).Value, r.v), r.pos))

\* Parser.parseComparison
parseComparison(ts, p) ==
    Bind(parseTerm(ts, p),
         LAMBDA l :
            IF tokenToComparisonOp(peekTok(ts, l.pos, 0).Type) = ""
            THEN Err("expected comparison operator, got " \o peekTok(ts, l.pos, 0).Type)
            ELSE Bind(parseTerm(ts, l.pos + 1),
                      LAMBDA r : Ok(Comparison(l.v,
                                        tokenToComparisonOp(peekTok(ts, l.pos, 0).Type),
                                        r.v), r.pos)))

RECURSIVE parseClause(_, _)
RECURSIVE bodyLoop(_, _, _)
RECURSIVE parseAggregation(_, _)

\* Parser.parseBody
parseBody(ts, p) == bodyLoop(ts, p, << >>)

bodyLoop(ts, p, clauses) ==
    Bind(parseClause(ts, p),
         LAMBDA r : IF peekTok(ts, r.pos, 0).Type = "TokenComma"
                    THEN bodyLoop(ts, r.pos + 1, Append(clauses, r.v))
                    ELSE Ok(Append(clauses, r.v), r.pos))

\* the operation of an aggregate clause, from the token after `aggregate(`
aggregateOpOf(tok) ==
    IF tokenToAggregateOp(tok.Type) # "" THEN tokenToAggregateOp(tok.Type)
    ELSE IF tok.Type = "TokenIdent"
            /\ \E op \in {"count", "sum", "max", "min", "avg"} : OpText(op) = tok.Value
    THEN CHOOSE op \in {"count", "sum", "max", "min", "avg"} : OpText(op) = tok.Value
    ELSE ""

\* parseAggregation, from the variable of the operation on
aggregateVariable(ts, p, op) ==
    IF op = "count" THEN Ok(<< >>, p)
    ELSE Bind(expectAll(ts, p, <<"TokenLParen", "TokenVariable", "TokenRParen">>, << >>),
              LAMBDA r : Ok(r.v[2].Value, r.pos))

\* Parser.parseAggregation
parseAggregation(ts, p) ==
    Bind(expectAll(ts, p, <<"TokenAggregate", "TokenLParen">>, << >>),
         LAMBDA open :
            IF aggregateOpOf(peekTok(ts, open.pos, 0)) = ""
            THEN IF peekTok(ts, open.pos, 0).Type = "TokenIdent"
                 THEN Err("unknown aggregate operation")
                 ELSE Err("expected aggregate operator, got "
                             \o peekTok(ts, open.pos, 0).Type)
            ELSE Bind(aggregateVariable(ts, open.pos + 1,
                                        aggregateOpOf(peekTok(ts, open.pos, 0))),
                 LAMBDA aggVar : Bind(expect(ts, aggVar.pos, "TokenComma"),
                 LAMBDA comma : Bind(parseBody(ts, comma.pos),
                 LAMBDA body : Bind(expectAll(ts, body.pos,
                                       <<"TokenComma", "TokenVariable", "TokenRParen">>,
                                       << >>),
                 LAMBDA close :
                    Ok(Aggregation(aggregateOpOf(peekTok(ts, open.pos, 0)), aggVar.v,
                                   body.v, close.v[2].Value),
                       close.pos))))))

\* Parser.parseClause
parseClause(ts, p) ==
    IF peekTok(ts, p, 0).Type = "TokenNot"
    THEN Bind(parseAtom(ts, p + 1), LAMBDA r : Ok(Negation(r.v), r.pos))
    ELSE IF peekTok(ts, p, 0).Type = "TokenAggregate" THEN parseAggregation(ts, p)
    ELSE IF peekTok(ts, p, 0).Type = "TokenVariable"
            /\ peekTok(ts, p, 1).Type = "TokenEq"
    THEN parseAssignmentOrComparison(ts, p)
    ELSE IF peekTok(ts, p, 0).Type = "TokenVariable"
            /\ isComparisonOp(peekTok(ts, p, 1).Type)
    THEN parseComparison(ts, p)
    ELSE Bind(parseAtom(ts, p), LAMBDA r : Ok(AtomClause(r.v), r.pos))

\* Parser.parseRule
parseRule(ts, p) ==
    Bind(parseAtom(ts, p),
         LAMBDA head : Bind(IF peekTok(ts, head.pos, 0).Type = "TokenImplies"
                            THEN parseBody(ts, head.pos + 1)
                            ELSE Ok(<< >>, head.pos),
         LAMBDA body : Bind(expect(ts, body.pos, "TokenDot"),
         LAMBDA dot : Ok(Rule(head.v, body.v), dot.pos))))

\* the value of a metric: a string, or the text of an expression
metricValue(ts, p) ==
    IF peekTok(ts, p, 0).Type = "TokenString" THEN Ok(peekTok(ts, p, 0).Value, p + 1)
    ELSE Bind(parseExpression(ts, p), LAMBDA e : Ok(ExprString(e.v), e.pos))

\* the loop of parseMetricsArray
RECURSIVE metricsLoop(_, _, _)
metricsLoop(ts, p, metrics) ==
    IF peekTok(ts, p, 0).Type = "TokenRBracket" THEN Ok(metrics, p)
    ELSE Bind(expectAll(ts, p, <<"TokenLBracket", "TokenString", "TokenComma">>, << >>),
         LAMBDA label : Bind(metricValue(ts, label.pos),
         LAMBDA value : Bind(expect(ts, value.pos, "TokenRBracket"),
         LAMBDA close :
            IF peekTok(ts, close.pos, 0).Type = "TokenComma"
            THEN metricsLoop(ts, close.pos + 1,
                             Append(metrics, [Label |-> label.v[2].Value,
                                              Value |-> value.v]))
            ELSE Ok(Append(metrics, [Label |-> label.v[2].Value, Value |-> value.v]),
                    close.pos))))

\* Parser.parseMetricsArray
parseMetricsArray(ts, p) ==
    Bind(expect(ts, p, "TokenLBracket"),
         LAMBDA open : Bind(metricsLoop(ts, open.pos, << >>),
         LAMBDA list : Bind(expect(ts, list.pos, "TokenRBracket"),
         LAMBDA close : Ok(list.v, close.pos))))

\* the optional target of parseSuggestionTemplate, after the comma
templateTarget(ts, p) ==
    IF peekTok(ts, p, 0).Type \in {"TokenString", "TokenVariable"}
    THEN Ok(peekTok(ts, p, 0).Value, p + 1)
    ELSE Ok(<< >>, p)

\* the optional metrics of parseSuggestionTemplate
templateMetrics(ts, p) ==
    IF peekTok(ts, p, 0).Type = "TokenComma" THEN parseMetricsArray(ts, p + 1)
    ELSE Ok(<< >>, p)

\* the optional part of parseSuggestionTemplate: target and metrics
templateOptional(ts, p) ==
    IF peekTok(ts, p, 0).Type # "TokenComma"
    THEN Ok([Target |-> << >>, Metrics |-> << >>], p)
    ELSE Bind(templateTarget(ts, p + 1),
         LAMBDA target : Bind(templateMetrics(ts, target.pos),
         LAMBDA metrics : Ok([Target |-> target.v, Metrics |-> metrics.v], metrics.pos)))

\* Parser.parseSuggestionTemplate
parseSuggestionTemplate(ts, p) ==
    Bind(expectAll(ts, p,
                   <<"TokenSuggestion", "TokenLParen", "TokenIdent", "TokenComma",
                     "TokenIdent", "TokenComma", "TokenString", "TokenComma",
                     "TokenString">>, << >>),
         LAMBDA fixed : Bind(templateOptional(ts, fixed.pos),
         LAMBDA optional : Bind(expect(ts, optional.pos, "TokenRParen"),
         LAMBDA close :
            Ok([Type |-> fixed.v[3].Value, Impact |-> fixed.v[5].Value,
                Title |-> fixed.v[7].Value, Body |-> fixed.v[9].Value,
                Target |-> optional.v.Target, Metrics |-> optional.v.Metrics],
               close.pos))))

\* Parser.parseSuggestionRule
parseSuggestionRule(ts, p) ==
    Bind(expectAll(ts, p,
                   <<"TokenRule", "TokenIdent", "TokenLBrace", "TokenWhen",
                     "TokenColon">>, << >>),
         LAMBDA header : Bind(parseBody(ts, header.pos),
         LAMBDA conditions : Bind(expectAll(ts, conditions.pos,
                                     <<"TokenDot", "TokenThen", "TokenColon">>, << >>),
         LAMBDA then : Bind(parseSuggestionTemplate(ts, then.pos),
         LAMBDA template : Bind(expectAll(ts, template.pos,
                                   <<"TokenDot", "TokenRBrace">>, << >>),
         LAMBDA close :
            Ok([ID |-> header.v[2].Value, Name |-> header.v[2].Value,
                Conditions |-> conditions.v, Suggestion |-> template.v],
               close.pos))))))

\* `return nil, err` of ParseProgram and Parse
NoProgramErr(msg) == [program |-> Program(<< >>, << >>), err |-> msg]

\* a parse error becomes the error of ParseProgram
OrError(r) == IF r.err # "" THEN NoProgramErr(r.err) ELSE r

\* the loop of ParseProgram
RECURSIVE programLoop(_, _, _)
programLoop(ts, p, prog) ==
    IF peekTok(ts, p, 0).Type = "TokenEOF" THEN [program |-> prog, err |-> ""]
    ELSE IF peekTok(ts, p, 0).Type = "TokenRule"
    THEN OrError(Bind(parseSuggestionRule(ts, p),
                      LAMBDA r : programLoop(ts, r.pos,
                                    Program(prog.Rules,
                                            Append(prog.SuggestionRules, r.v)))))
    ELSE IF peekTok(ts, p, 0).Type \in {"TokenIdent", "TokenVariable"}
    THEN OrError(Bind(parseRule(ts, p),
                      LAMBDA r : programLoop(ts, r.pos,
                                    Program(Append(prog.Rules, r.v),
                                            prog.SuggestionRules))))
    ELSE NoProgramErr("unexpected token " \o peekTok(ts, p, 0).Type
                         \o atPos(peekTok(ts, p, 0)))

\* Parser.ParseProgram
ParseProgram(ts) == programLoop(ts, 0, Program(<< >>, << >>))

\* Parse
Parse(inp) ==
    LET parsed(t) == IF t.err # "" THEN NoProgramErr(t.err) ELSE ParseProgram(t.tokens)
    IN  parsed(Tokenize(inp))

(***************************************************************************)
(* Source texts: a rule is a head, at most MaxClauses clauses and the      *)
(* separator between the clauses; a suggestion rule is a text of its own.  *)
(***************************************************************************)
\* ?R = ?A % ?B
ModText ==
    <<"?", "R", " ", "=", " ", "?", "A", " ", "%", " ", "?", "B">>
\* ?M = max(?A, ?B)
MaxText ==
    <<"?", "M", " ", "=", " ", "m", "a", "x", "(", "?", "A", ",",
      " ", "?", "B", ")">>
\* ?M = min(?A, ?B)
MinText ==
    <<"?", "M", " ", "=", " ", "m", "i", "n", "(", "?", "A", ",",
      " ", "?", "B", ")">>
\* , % note\n  
CommentText ==
    <<",", " ", "%", " ", "n", "o", "t", "e", "\n", " ", " ">>
\* rule slow {\n  when: q(?A).\n  then: suggestion(warning, high, "t", "b", ?A, [["n", ?A + 1]]).\n}
SuggestionText ==
    <<"r", "u", "l", "e", " ", "s", "l", "o", "w", " ", "{", "\n",
      " ", " ", "w", "h", "e", "n", ":", " ", "q", "(", "?", "A",
      ")", ".", "\n", " ", " ", "t", "h", "e", "n", ":", " ", "s",
      "u", "g", "g", "e", "s", "t", "i", "o", "n", "(", "w", "a",
      "r", "n", "i", "n", "g", ",", " ", "h", "i", "g", "h", ",",
      " ", "\"", "t", "\"", ",", " ", "\"", "b", "\"", ",", " ", "?",
      "A", ",", " ", "[", "[", "\"", "n", "\"", ",", " ", "?", "A",
      " ", "+", " ", "1", "]", "]", ")", ".", "\n", "}">>

HeadTexts ==
    { \* r(?R)
      <<"r", "(", "?", "R", ")">>,
      \* h(1.0)
      <<"h", "(", "1", ".", "0", ")">>,
      \* g(-2, true, _)
      <<"g", "(", "-", "2", ",", " ", "t", "r", "u", "e", ",", " ",
        "_", ")">> }

PlainClauseTexts ==
    { \* e(?A, ?B)
      <<"e", "(", "?", "A", ",", " ", "?", "B", ")">>,
      \* ?A > -1
      <<"?", "A", " ", ">", " ", "-", "1">>,
      \* ?Z = ?A * 2 + 1.5
      <<"?", "Z", " ", "=", " ", "?", "A", " ", "*", " ", "2", " ",
        "+", " ", "1", ".", "5">>,
      \* not q(?A)
      <<"n", "o", "t", " ", "q", "(", "?", "A", ")">>,
      \* f(?A, 2.0)
      <<"f", "(", "?", "A", ",", " ", "2", ".", "0", ")">>,
      \* ?S = abs(?A)
      <<"?", "S", " ", "=", " ", "a", "b", "s", "(", "?", "A", ")">>,
      \* ?A != "a\"b"
      <<"?", "A", " ", "!", "=", " ", "\"", "a", "\\", "\"", "b", "\"">> }

AggregateTexts ==
    { \* aggregate(count, q(?X), ?N)
      <<"a", "g", "g", "r", "e", "g", "a", "t", "e", "(", "c", "o",
        "u", "n", "t", ",", " ", "q", "(", "?", "X", ")", ",", " ",
        "?", "N", ")">>,
      \* aggregate(sum(?X), q(?X), ?N)
      <<"a", "g", "g", "r", "e", "g", "a", "t", "e", "(", "s", "u",
        "m", "(", "?", "X", ")", ",", " ", "q", "(", "?", "X", ")",
        ",", " ", "?", "N", ")">> }

ClauseTexts == PlainClauseTexts \cup AggregateTexts \cup {ModText, MaxText, MinText}

Separators ==
    { \* , 
      <<",", " ">>,
      \* ,\n
      <<",", "\n">>,
      CommentText }

RECURSIVE JoinWith(_, _)
JoinWith(parts, sep) ==
    IF Len(parts) = 1 THEN parts[1]
    ELSE parts[1] \o sep \o JoinWith(Tail(parts), sep)

\* the text of the rule `head :- clause, ... .`
RuleText(h, cs, sep) ==
    IF cs = << >> THEN h \o <<".">>
    ELSE h \o <<" ", ":", "-", " ">> \o JoinWith(cs, sep) \o <<".">>

ClauseLists == UNION { [1..n -> ClauseTexts] : n \in 0..MaxClauses }

(***************************************************************************)
(* Lexer, parser and printer as a state machine: a source text is          *)
(* tokenized, or parsed, its rules printed and the prints parsed again.    *)
(***************************************************************************)
ParseInit ==
    /\ NewEngine
    /\ NoSweep /\ NoSuggestions /\ NoLoad
    /\ phase = "source"
    /\ output = << >>
    /\ \/ \E h \in HeadTexts, cs \in ClauseLists, sep \in Separators :
             input = [text |-> RuleText(h, cs, sep), clauses |-> cs]
       \/ input = [text |-> SuggestionText, clauses |-> << >>]

\* NewLexer(input).Tokenize()
TokenizeCall ==
    /\ phase = "source"
    /\ phase' = "tokenized"
    /\ output' = Tokenize(input.text)
    /\ UNCHANGED <<engineVars, sweepVars, suggVars, loadVars, input>>

\* Parse(input)
ParseCall ==
    /\ phase = "source"
    /\ phase' = "parsed"
    /\ output' = Parse(input.text)
    /\ UNCHANGED <<engineVars, sweepVars, suggVars, loadVars, input>>

\* rule.String() for every rule of the parsed program
PrintRules ==
    /\ phase = "parsed"
    /\ output.err = ""
    /\ phase' = "printed"
    /\ output' = [program |-> output.program,
                  printed |-> [i \in 1..Len(output.program.Rules) |->
                                  RuleString(output.program.Rules[i])]]
    /\ UNCHANGED <<engineVars, sweepVars, suggVars, loadVars, input>>

\* Parse of each printed rule
ReparseCall ==
    /\ phase = "printed"
    /\ phase' = "reparsed"
    /\ output' = [program |-> output.program,
                  printed |-> output.printed,
                  reparsed |-> [i \in 1..Len(output.printed) |-> Parse(output.printed[i])]]
    /\ UNCHANGED <<engineVars, sweepVars, suggVars, loadVars, input>>

ParseNext == TokenizeCall \/ ParseCall \/ PrintRules \/ ReparseCall

ParseSpec == ParseInit /\ [][ParseNext]_vars

(***************************************************************************)
(* Properties of the printer, the lexer and the parser.                    *)
(***************************************************************************)
TermShape(term) == IF term.t = "const" THEN <<"const", term.type>> ELSE <<term.t>>

AtomShape(a) == <<a.Predicate, [i \in 1..Len(a.Args) |-> TermShape(a.Args[i])]>>

RECURSIVE ExprShape(_)
ExprShape(expr) ==
    CASE expr.e = "term" -> <<"term", TermShape(expr.term)>>
      [] expr.e = "bin" -> <<"bin", expr.op, ExprShape(expr.left), ExprShape(expr.right)>>
      [] expr.e = "call" ->
            <<"call", expr.name, [i \in 1..Len(expr.args) |-> ExprShape(expr.args[i])]>>

RECURSIVE ClauseShape(_)
ClauseShape(clause) ==
    CASE clause.c = "atom" -> <<"atom", AtomShape(clause.atom)>>
      [] clause.c = "neg" -> <<"neg", AtomShape(clause.atom)>>
      [] clause.c = "cmp" ->
            <<"cmp", clause.op, TermShape(clause.left), TermShape(clause.right)>>
      [] clause.c = "assign" -> <<"assign", ExprShape(clause.expr)>>
      [] clause.c = "agg" ->
            <<"agg", clause.op,
              [i \in 1..Len(clause.body) |-> ClauseShape(clause.body[i])]>>

\* same head, same clause kinds, operators, term kinds and constant kinds
StructurallyEqual(a, b) ==
    /\ AtomShape(a.Head) = AtomShape(b.Head)
    /\ [i \in 1..Len(a.Body) |-> ClauseShape(a.Body[i])]
          = [i \in 1..Len(b.Body) |-> ClauseShape(b.Body[i])]

\* C14: every rule of a program returned by Parse, printed with its String
\* method and parsed again, gives one rule that is structurally equal to it.
C14_RoundTrip ==
    phase = "reparsed" =>
        \A i \in 1..Len(output.program.Rules) :
           /\ output.reparsed[i].err = ""
           /\ Len(output.reparsed[i].program.Rules) = 1
           /\ StructurallyEqual(output.program.Rules[i],
                                output.reparsed[i].program.Rules[1])

\* the clauses of the source text are among cs, and one of them is c
ClausesAmong(cs, c) ==
    /\ \A i \in 1..Len(input.clauses) : input.clauses[i] \in cs
    /\ \E i \in 1..Len(input.clauses) : input.clauses[i] = c

VarA == Var(<<"?", "A">>)
VarB == Var(<<"?", "B">>)

\* C18: `?R = ?A % ?B` lexes to a percent token between the two variables
\* and parses to an Assignment of a BinaryExpr with operator %, and a
\* comment still produces no token.
C18_PercentOperator ==
    /\ (phase = "tokenized" /\ ClausesAmong(ClauseTexts, ModText)) =>
          /\ output.err = ""
          /\ \E k \in 2..(Len(output.tokens) - 1) :
                /\ output.tokens[k].Type = "TokenPercent"
                /\ output.tokens[k - 1].Value = VarA.name
                /\ output.tokens[k + 1].Value = VarB.name
    /\ (phase = "parsed" /\ ClausesAmong(PlainClauseTexts \cup {ModText}, ModText)) =>
          /\ output.err = ""
          /\ \A i \in 1..Len(input.clauses) : input.clauses[i] = ModText =>
                output.program.Rules[1].Body[i]
                   = Assignment(<<"?", "R">>,
                                BinaryExpr(TermExpr(VarA), "%", TermExpr(VarB)))
    /\ (phase = "tokenized" /\ output.err = "") =>
          \A k \in 1..Len(output.tokens) :
             output.tokens[k].Value # <<"n", "o", "t", "e">>

\* C19: `?M = max(?A, ?B)` and `?M = min(?A, ?B)` parse to an Assignment
\* whose expression is a FunctionCall of max (min) with the two arguments.
C19_MinMaxCallable ==
    (phase = "parsed"
        /\ \/ ClausesAmong(PlainClauseTexts \cup {MaxText, MinText}, MaxText)
           \/ ClausesAmong(PlainClauseTexts \cup {MaxText, MinText}, MinText)) =>
        /\ output.err = ""
        /\ \A i \in 1..Len(input.clauses) :
              input.clauses[i] \in {MaxText, MinText} =>
                 output.program.Rules[1].Body[i]
                    = Assignment(<<"?", "M">>,
                                 FunctionCall(IF input.clauses[i] = MaxText
                                              THEN OpText("max") ELSE OpText("min"),
                                              <<TermExpr(VarA), TermExpr(VarB)>>))

\* the index in the text of the character at a line and column
OffsetOf(inp, line, column) ==
    LET newlines == { i \in 1..Len(inp) : inp[i] = "\n" }
        before(j) == Cardinality({ k \in newlines : k <= j })
    IN  IF line = 1 THEN column
        ELSE IF \E j \in newlines : before(j) = line - 1
        THEN (CHOOSE j \in newlines : before(j) = line - 1) + column
        ELSE 0

\* the text has the token at the position the token carries
StartsAt(inp, tok) ==
    LET off == OffsetOf(inp, tok.Line, tok.Column)
    IN  CASE tok.Type = "TokenEOF" -> off = Len(inp) + 1
          [] tok.Type = "TokenString" -> off \in 1..Len(inp) /\ inp[off] = "\""
          [] OTHER -> /\ off >= 1
                      /\ off + Len(tok.Value) - 1 <= Len(inp)
                      /\ SubSeq(inp, off, off + Len(tok.Value) - 1) = tok.Value

\* C20: every token returned by Tokenize carries the line and column of its
\* first character.
C20_TokenPositions ==
    (phase = "tokenized" /\ output.err = "") =>
        \A k \in 1..Len(output.tokens) : StartsAt(input.text, output.tokens[k])

(***************************************************************************)
(* The fact builder (datalog/facts.go).  Ts and Dur are whole numbers;     *)
(* Args maps the keys an event has to their values.  The order in which a  *)
(* `range` over a map appends the grouped aggregates is not specified:     *)
(* those facts are kept as a set, between the facts appended before them   *)
(* and the facts appended after them.                                      *)
(***************************************************************************)
Event(name, cat, ts, dur, args) ==
    [Name |-> name, Cat |-> cat, Ts |-> ts, Dur |-> dur, Pid |-> 0, Tid |-> 0,
     Args |-> args]

NoArgs == [key \in {} |-> NaN]
OneArg(key, val) == [x \in {key} |-> val]
TwoArgs(mnemonic, target) ==
    [key \in {"mnemonic", "target"} |-> IF key = "mnemonic" THEN mnemonic ELSE target]

isActionableCategory(cat) ==
    cat \in {"action processing", "complete action execution",
             "Fetching repository", "package creation"}

isSystemCategory(cat) ==
    cat \in {"general information", "build phase marker", "gc notification",
             "skyframe evaluator", "action count (local)", "critical path component",
             "Conflict checking", "bazel module processing"}

\* `_, ok := e.Args[key].(string)`
stringArg(e, key) == key \in DOMAIN e.Args /\ e.Args[key].k = "s"

\* `target, ok := e.Args["target"].(string); ok && target != ""`
hasTarget(e) == stringArg(e, "target") /\ e.Args["target"].s # ""

\* `hasTarget || (isActionableCategory(e.Cat) && e.Args["mnemonic"] != nil)`
isActionable(e) ==
    hasTarget(e) \/ (isActionableCategory(e.Cat) /\ "mnemonic" \in DOMAIN e.Args)

\* the facts of the first pass for event i (counted from 0)
eventFacts(e, i) ==
    << Fact("trace_event", <<Num(i), Str(e.Name), Str(e.Cat), Num(e.Ts), Num(e.Dur)>>),
       Fact("trace_event_tid", <<Num(i), Num(e.Tid)>>),
       Fact("trace_event_pid", <<Num(i), Num(e.Pid)>>) >>
    \o (IF stringArg(e, "mnemonic")
        THEN <<Fact("trace_event_mnemonic", <<Num(i), e.Args["mnemonic"]>>)>>
        ELSE << >>)
    \o (IF hasTarget(e)
        THEN << Fact("trace_event_target", <<Num(i), e.Args["target"]>>),
                Fact("has_target", <<Num(i)>>) >>
        ELSE << >>)
    \o (IF isActionable(e) THEN <<Fact("is_actionable", <<Num(i)>>)>> ELSE << >>)
    \o (IF isSystemCategory(e.Cat) THEN <<Fact("is_system", <<Num(i)>>)>> ELSE << >>)

RECURSIVE SumDur(_)
SumDur(evs) == IF evs = << >> THEN 0 ELSE Head(evs).Dur + SumDur(Tail(evs))

\* `if end > maxEnd { maxEnd = end }` over the events, from 0
RECURSIVE maxEndOf(_, _)
maxEndOf(evs, maxEnd) ==
    IF evs = << >> THEN maxEnd
    ELSE maxEndOf(Tail(evs),
                  IF Head(evs).Ts + Head(evs).Dur > maxEnd
                  THEN Head(evs).Ts + Head(evs).Dur ELSE maxEnd)

\* the aggregate facts that are emitted once
totalFacts(evs) ==
    << Fact("total_duration", <<Num(maxEndOf(evs, 0))>>),
       Fact("total_action_time", <<Num(SumDur(evs))>>),
       Fact("total_actions", <<Num(Len(evs))>>),
       Fact("actionable_time", <<Num(SumDur(SelectSeq(evs, isActionable)))>>),
       Fact("actionable_count", <<Num(Len(SelectSeq(evs, isActionable)))>>) >>

\* the facts of the category, mnemonic and target maps
groupedFacts(evs) ==
    LET inCat(cat) == SelectSeq(evs, LAMBDA e : e.Cat = cat)
        counted == SelectSeq(evs, LAMBDA e : stringArg(e, "mnemonic") /\ hasTarget(e))
        withMnemonic(m) == SelectSeq(counted, LAMBDA e : e.Args["mnemonic"] = m)
        targeted == SelectSeq(evs, hasTarget)
        withTarget(t) == SelectSeq(targeted, LAMBDA e : e.Args["target"] = t)
    IN  { Fact("category_time", <<Str(evs[i].Cat), Num(SumDur(inCat(evs[i].Cat)))>>)
          : i \in 1..Len(evs) }
        \cup { Fact("category_count", <<Str(evs[i].Cat), Num(Len(inCat(evs[i].Cat)))>>)
               : i \in 1..Len(evs) }
        \cup { Fact("mnemonic_time",
                    <<counted[i].Args["mnemonic"],
                      Num(SumDur(withMnemonic(counted[i].Args["mnemonic"])))>>)
               : i \in 1..Len(counted) }
        \cup { Fact("mnemonic_count",
                    <<counted[i].Args["mnemonic"],
                      Num(Len(withMnemonic(counted[i].Args["mnemonic"])))>>)
               : i \in 1..Len(counted) }
        \cup { Fact("target_time",
                    <<targeted[i].Args["target"],
                      Num(SumDur(withTarget(targeted[i].Args["target"])))>>)
               : i \in 1..Len(targeted) }

\* the event with a target that ends last (`end > lastActionableEnd`, from
\* 0); idx = -1 stands for the nil pointer
RECURSIVE lastActionable(_, _, _, _)
lastActionable(evs, i, idx, lastEnd) ==
    IF i > Len(evs) THEN idx
    ELSE IF hasTarget(evs[i]) /\ evs[i].Ts + evs[i].Dur > lastEnd
    THEN lastActionable(evs, i + 1, i - 1, evs[i].Ts + evs[i].Dur)
    ELSE lastActionable(evs, i + 1, idx, lastEnd)

\* the events with a target, in event order
RECURSIVE actionableEvents(_, _)
actionableEvents(evs, i) ==
    IF i > Len(evs) THEN << >>
    ELSE (IF hasTarget(evs[i])
          THEN <<[idx |-> i - 1, duration |-> evs[i].Dur, name |-> evs[i].Name,
                  target |-> evs[i].Args["target"].s]>>
          ELSE << >>) \o actionableEvents(evs, i + 1)

\* variant: no two entries are ever exchanged
shorterNever(a, b) == FALSE

\* the swap condition of the sort by duration
shorter(a, b) == a.duration < b.duration

\* `for j := i + 1; j < len(actionableEvents); j++`
RECURSIVE sortDurationInner(_, _, _)
sortDurationInner(list, i, j) ==
    IF j > Len(list) THEN list
    ELSE sortDurationInner(IF shorter(list[i], list[j]) THEN swap(list, i, j) ELSE list,
                           i, j + 1)

\* `for i := 0; i < len(actionableEvents)-1; i++`
RECURSIVE sortByDuration(_, _)
sortByDuration(list, i) ==
    IF i >= Len(list) THEN list
    ELSE sortByDuration(sortDurationInner(list, i, i + 1), i + 1)

\* the number of events marked as potential bottlenecks
TopBottlenecks == 5

percentOf(dur, maxEnd) == IF maxEnd > 0 THEN Frac(dur * 100, maxEnd) ELSE Num(0)

\* computeCriticalPath
computeCriticalPath(evs) ==
    LET maxEnd == maxEndOf(evs, 0)
        endpoint(idx) ==
            IF idx < 0 THEN << >>
            ELSE <<Fact("critical_path_end",
                        <<Num(idx), Str(evs[idx + 1].Name), Num(evs[idx + 1].Dur),
                          evs[idx + 1].Args["target"]>>)>>
                 \o (IF maxEnd > 0
                     THEN <<Fact("critical_path_percent",
                                 <<percentOf(evs[idx + 1].Dur, maxEnd)>>)>>
                     ELSE << >>)
        bottlenecks(list) ==
            [i \in 1..(IF Len(list) < TopBottlenecks THEN Len(list) ELSE TopBottlenecks) |->
                Fact("potential_bottleneck",
                     <<Num(list[i].idx), Str(list[i].name), Num(list[i].duration),
                       percentOf(list[i].duration, maxEnd), Str(list[i].target)>>)]
    IN  IF Len(evs) = 0 THEN << >>
        ELSE endpoint(lastActionable(evs, 1, -1, 0))
                \o bottlenecks(sortByDuration(actionableEvents(evs, 1), 1))

\* GenerateFacts: the facts appended before the grouped aggregates, the
\* grouped aggregates, and the facts appended after them
generateFacts(evs) ==
    [first |-> Flatten([i \in 1..Len(evs) |-> eventFacts(evs[i], i - 1)])
                  \o totalFacts(evs),
     grouped |-> groupedFacts(evs),
     last |-> <<Fact("max_concurrency", <<Num(computeMaxConcurrency(evs))>>)>>
                 \o computeCriticalPath(evs)]

\* the kinds of events of the traces
EventCatalog ==
    { Event("Compile", "action processing", 0, 2, TwoArgs(Str("Javac"), Str("//a"))),
      Event("Link", "", 1, 1, OneArg("target", Str("//b"))),
      Event("Fetch", "Fetching repository", 0, 1, OneArg("mnemonic", Num(7))),
      Event("gc", "gc notification", 2, 1, NoArgs),
      Event("Load", "package creation", 1, 2, OneArg("mnemonic", Str("Javac"))),
      Event("Test", "action processing", 3, 1, OneArg("target", Str(""))) }

\* the kinds of events of the traces with many targets
TargetCatalog ==
    { Event("A", "", 0, 1, OneArg("target", Str("//a"))),
      Event("B", "", 1, 2, OneArg("target", Str("//b"))),
      Event("D", "", 0, 3, NoArgs) }

FactsInit ==
    /\ NewEngine
    /\ NoSweep /\ NoSuggestions /\ NoLoad
    /\ phase = "trace"
    /\ output = << >>
    /\ input \in UNION { [1..n -> EventCatalog] : n \in 0..MaxTraceEvents }

TargetsInit ==
    /\ NewEngine
    /\ NoSweep /\ NoSuggestions /\ NoLoad
    /\ phase = "trace"
    /\ output = << >>
    /\ input \in UNION { [1..n -> TargetCatalog] : n \in 0..MaxTargetEvents }

\* GenerateFacts(events)
GenerateFactsCall ==
    /\ phase = "trace"
    /\ phase' = "generated"
    /\ output' = generateFacts(input)
    /\ UNCHANGED <<engineVars, sweepVars, suggVars, loadVars, input>>

FactsSpec == FactsInit /\ [][GenerateFactsCall]_vars

TargetsSpec == TargetsInit /\ [][GenerateFactsCall]_vars

(***************************************************************************)
(* Properties of GenerateFacts.                                            *)
(***************************************************************************)
\* the facts of a predicate that GenerateFacts returned
Emitted(out, p) ==
    { out.first[i] : i \in { k \in 1..Len(out.first) : out.first[k].Predicate = p } }
    \cup { f \in out.grouped : f.Predicate = p }
    \cup { out.last[i] : i \in { k \in 1..Len(out.last) : out.last[k].Predicate = p } }

\* C15: is_actionable(i) is emitted exactly when has_target(i) is, or the
\* category of event i is actionable and a trace_event_mnemonic(i, _) fact
\* is emitted; has_target(i) implies is_actionable(i); actionable_count is
\* the number of is_actionable facts.
C15_Actionable ==
    phase = "generated" =>
        /\ \A i \in 0..(Len(input) - 1) :
              /\ Fact("is_actionable", <<Num(i)>>) \in Emitted(output, "is_actionable")
                    <=> \/ Fact("has_target", <<Num(i)>>) \in Emitted(output, "has_target")
                        \/ /\ isActionableCategory(input[i + 1].Cat)
                           /\ \E f \in Emitted(output, "trace_event_mnemonic") :
                                 f.Args[1] = Num(i)
              /\ Fact("has_target", <<Num(i)>>) \in Emitted(output, "has_target")
                    => Fact("is_actionable", <<Num(i)>>) \in Emitted(output, "is_actionable")
        /\ Emitted(output, "actionable_count")
              = { Fact("actionable_count",
                       <<Num(Cardinality(Emitted(output, "is_actionable")))>>) }

\* the events whose args hold the string at the key, and a non-empty target
EventsWith(evs, key, val) ==
    { i \in 1..Len(evs) :
         /\ key \in DOMAIN evs[i].Args
         /\ evs[i].Args[key] = Str(val)
         /\ "target" \in DOMAIN evs[i].Args
         /\ evs[i].Args["target"].k = "s"
         /\ evs[i].Args["target"].s # "" }

RECURSIVE DurOver(_, _)
DurOver(evs, S) ==
    IF S = {} THEN 0
    ELSE LET i == CHOOSE x \in S : TRUE
         IN  evs[i].Dur + DurOver(evs, S \ {i})

\* C16: every distinct non-empty target has a target_time and a
\* target_count fact, every category a category_time and a category_count
\* fact, and every mnemonic of an event with a target a mnemonic_time and a
\* mnemonic_count fact, with the sum of the durations and the number of the
\* events of the group.
C16_TimeCountPairs ==
    phase = "generated" =>
        /\ \A t \in {"//a", "//b"} : EventsWith(input, "target", t) # {} =>
              /\ Fact("target_time",
                      <<Str(t), Num(DurOver(input, EventsWith(input, "target", t)))>>)
                    \in Emitted(output, "target_time")
              /\ Fact("target_count",
                      <<Str(t), Num(Cardinality(EventsWith(input, "target", t)))>>)
                    \in Emitted(output, "target_count")
        /\ \A m \in {"Javac"} : EventsWith(input, "mnemonic", m) # {} =>
              /\ Fact("mnemonic_time",
                      <<Str(m), Num(DurOver(input, EventsWith(input, "mnemonic", m)))>>)
                    \in Emitted(output, "mnemonic_time")
              /\ Fact("mnemonic_count",
                      <<Str(m), Num(Cardinality(EventsWith(input, "mnemonic", m)))>>)
                    \in Emitted(output, "mnemonic_count")
        /\ \A i \in 1..Len(input) :
              LET same == { j \in 1..Len(input) : input[j].Cat = input[i].Cat }
              IN  /\ Fact("category_time", <<Str(input[i].Cat), Num(DurOver(input, same))>>)
                        \in Emitted(output, "category_time")
                  /\ Fact("category_count", <<Str(input[i].Cat), Num(Cardinality(same))>>)
                        \in Emitted(output, "category_count")

\* the potential_bottleneck facts, in the order of their emission
Bottlenecks(out) == SelectSeq(out.last, LAMBDA f : f.Predicate = "potential_bottleneck")

\* the indices (from 0) of the events with a non-empty target
Targeted(evs) ==
    { i \in 0..(Len(evs) - 1) :
         /\ "target" \in DOMAIN evs[i + 1].Args
         /\ evs[i + 1].Args["target"].k = "s"
         /\ evs[i + 1].Args["target"].s # "" }

\* C17: min(5, k) potential_bottleneck facts are emitted, k being the
\* number of events with a target; each is a different event with a target
\* and carries its duration; the durations do not increase along the facts;
\* no event with a target that is left out is longer than an included one.
C17_TopBottlenecks ==
    phase = "generated" =>
        LET b == Bottlenecks(output)
            k == Cardinality(Targeted(input))
            included == { b[i].Args[1].n : i \in 1..Len(b) }
        IN  /\ Len(b) = IF k < 5 THEN k ELSE 5
            /\ Cardinality(included) = Len(b)
            /\ included \subseteq Targeted(input)
            /\ \A i \in 1..Len(b) : b[i].Args[3] = Num(input[b[i].Args[1].n + 1].Dur)
            /\ \A i \in 1..(Len(b) - 1) : b[i].Args[3].n >= b[i + 1].Args[3].n
            /\ \A x \in Targeted(input) \ included : \A y \in included :
                  input[x + 1].Dur <= input[y + 1].Dur

C17_Witness ==
    /\ phase = "generated"
    /\ Len(input) = 7 /\ Cardinality(Targeted(input)) = 6
    /\ Len(Bottlenecks(output)) = 5
    /\ input[1].Dur < input[6].Dur
    /\ \E i \in 1..Len(input) : input[i].Dur > Bottlenecks(output)[1].Args[3].n
    /\ Bottlenecks(output)[1].Args[3].n > Bottlenecks(output)[5].Args[3].n
    /\ \E x \in Targeted(input) :
          /\ \A i \in 1..5 : Bottlenecks(output)[i].Args[1].n # x
          /\ input[x + 1].Dur < Bottlenecks(output)[1].Args[3].n

(***************************************************************************)
(* renderTemplate on the characters of a template                          *)
(* (suggestions/evaluator.go).  Bindings map variable names (with the '?') *)
(* to values.                                                              *)
(***************************************************************************)
\* formatValue, as characters
formatChars(val) ==
    IF val.k = "s" THEN val.s
    ELSE [i \in 1..Len(SprintBytes(val)) |-> RuneOf(SprintBytes(val)[i])]

\* the end of the longest run of \w characters that starts at position i
RECURSIVE wordEnd(_, _)
wordEnd(t, i) ==
    IF i <= Len(t) /\ t[i] \in IdentChars THEN wordEnd(t, i + 1) ELSE i

\* the match of `\{(\??\w+)\}` that starts at position i: the position of
\* its closing brace, or 0 when there is none
matchPlaceholder(t, i) ==
    IF i > Len(t) \/ t[i] # "{" THEN 0
    ELSE LET w == IF i + 1 <= Len(t) /\ t[i + 1] = "?" THEN i + 2 ELSE i + 1
         IN  IF wordEnd(t, w) > w /\ wordEnd(t, w) <= Len(t) /\ t[wordEnd(t, w)] = "}"
             THEN wordEnd(t, w)
             ELSE 0

\* the callback of ReplaceAllStringFunc
replacePlaceholder(m, b) ==
    LET inner == SubSeq(m, 2, Len(m) - 1)
        varName == IF inner[1] = "?" THEN inner ELSE <<"?">> \o inner
    IN  IF Bound(b, varName) THEN formatChars(b[varName]) ELSE m

\* re.ReplaceAllStringFunc: the matches from left to right, not overlapping
RECURSIVE replaceAll(_, _, _)
replaceAll(t, i, b) ==
    IF i > Len(t) THEN << >>
    ELSE IF matchPlaceholder(t, i) = 0 THEN <<t[i]>> \o replaceAll(t, i + 1, b)
    ELSE replacePlaceholder(SubSeq(t, i, matchPlaceholder(t, i)), b)
            \o replaceAll(t, matchPlaceholder(t, i) + 1, b)

\* bareVarRe.MatchString: `^\?(\w+)$`
isBareVar(s) == Len(s) >= 2 /\ s[1] = "?" /\ wordEnd(s, 2) = Len(s) + 1

\* the second step of renderTemplate: it looks at the result of the first
bareVarStep(result, b) ==
    IF isBareVar(result) /\ Bound(b, result) THEN formatChars(b[result]) ELSE result

renderTemplateChars(template, b) == bareVarStep(replaceAll(template, 1, b), b)

\* the pieces the templates are made of, and the bindings
TemplatePieces ==
    { <<"{", "X", "}">>, <<"{", "?", "X", "}">>, <<"{", "Y", "}">>, <<"?", "X">>,
      <<"a">>, <<"{">>, <<"}">>, <<" ">> }

BindingCatalog ==
    LET X == <<"?", "X">>
        Y == <<"?", "Y">>
        xs == { Str(<<"v">>), Str(<<"?", "Y">>), Str(<<"{", "Y", "}">>), Num(3) }
        ys == { Str(<<"w">>) }
    IN  {EmptyBindings}
           \cup { CloneSet(EmptyBindings, X, x) : x \in xs }
           \cup { CloneSet(EmptyBindings, Y, y) : y \in ys }
           \cup { CloneSet(CloneSet(EmptyBindings, X, x), Y, y) : x \in xs, y \in ys }

RenderInit ==
    /\ NewEngine
    /\ NoSweep /\ NoSuggestions /\ NoLoad
    /\ phase = "template"
    /\ output = << >>
    /\ \E ps \in UNION { [1..n -> TemplatePieces] : n \in 0..MaxPieces } :
       \E b \in BindingCatalog :
          input = [template |-> Flatten(ps), bindings |-> b]

\* renderTemplate(template, bindings)
RenderTemplateCall ==
    /\ phase = "template"
    /\ phase' = "rendered"
    /\ output' = renderTemplateChars(input.template, input.bindings)
    /\ UNCHANGED <<engineVars, sweepVars, suggVars, loadVars, input>>

RenderSpec == RenderInit /\ [][RenderTemplateCall]_vars

\* the spans i..j of the template that are placeholders: braces around a
\* name of letters, digits and '_', with or without a leading '?'
IsPlaceholder(t, i, j) ==
    /\ t[i] = "{" /\ t[j] = "}"
    /\ LET first == IF t[i + 1] = "?" THEN i + 2 ELSE i + 1
       IN  /\ first < j
           /\ \A k \in first..(j - 1) : t[k] \in Letters \cup Digits \cup {"_"}

\* the variable a placeholder names
NameOf(t, i, j) ==
    IF t[i + 1] = "?" THEN SubSeq(t, i + 1, j - 1) ELSE <<"?">> \o SubSeq(t, i + 1, j - 1)

\* the text of a value
ShownAs(val) ==
    CASE val = Str(<<"v">>) -> <<"v">>
      [] val = Str(<<"w">>) -> <<"w">>
      [] val = Str(<<"?", "Y">>) -> <<"?", "Y">>
      [] val = Str(<<"{", "Y", "}">>) -> <<"{", "Y", "}">>
      [] val = Num(3) -> <<"3">>

\* the template from position i on, with the placeholders of bound
\* variables replaced by the values and everything else as it is
RECURSIVE Substituted(_, _, _)
Substituted(t, i, b) ==
    IF i > Len(t) THEN << >>
    ELSE IF \E j \in (i + 1)..Len(t) : IsPlaceholder(t, i, j)
    THEN LET j == CHOOSE j \in (i + 1)..Len(t) : IsPlaceholder(t, i, j)
         IN  (IF NameOf(t, i, j) \in DOMAIN b THEN ShownAs(b[NameOf(t, i, j)])
              ELSE SubSeq(t, i, j)) \o Substituted(t, j + 1, b)
    ELSE <<t[i]>> \o Substituted(t, i + 1, b)

\* C21: renderTemplate returns the template with the placeholders of bound
\* variables replaced by the formatted values and nothing else changed; a
\* template that is exactly one bound ?Name is replaced by its value; a
\* substituted value is not expanded again.
C21_RenderTemplate ==
    phase = "rendered" =>
        output = IF input.template = <<"?", "X">> /\ input.template \in DOMAIN input.bindings
                 THEN ShownAs(input.bindings[input.template])
                 ELSE Substituted(input.template, 1, input.bindings)

(***************************************************************************)
(* The formatting built-ins truncate and format_time                       *)
(* (RegisterFormattingBuiltins, FormatDuration).  A string is the sequence *)
(* of its bytes.  A slice expression with a negative bound panics.         *)
(***************************************************************************)
\* the `truncate` built-in on a string and a whole number: Go's
\* `str[:int(maxLen)-3] + "..."` when len(str) > int(maxLen)
truncate(str, maxLen) ==
    IF Len(str) > maxLen
    THEN IF maxLen - 3 < 0
         THEN [panic |-> TRUE, v |-> << >>]
         ELSE [panic |-> FALSE, v |-> SubSeq(str, 1, maxLen - 3) \o <<".", ".", ".">>]
    ELSE [panic |-> FALSE, v |-> str]

TruncateInit ==
    /\ NewEngine
    /\ NoSweep /\ NoSuggestions /\ NoLoad
    /\ phase = "string"
    /\ output = << >>
    /\ \E s \in UNION { [1..n -> {"a", "b"}] : n \in 0..MaxStrLen } :
       \E n \in 0..MaxStrLen :
          input = [s |-> s, n |-> n]

\* a call of truncate(s, n)
TruncateCall ==
    /\ phase = "string"
    /\ phase' = "truncated"
    /\ output' = truncate(input.s, input.n)
    /\ UNCHANGED <<engineVars, sweepVars, suggVars, loadVars, input>>

TruncateSpec == TruncateInit /\ [][TruncateCall]_vars

\* C26: truncate(s, n) does not crash; it returns s when len(s) <= n and
\* otherwise a string of length n that ends in "...".
C26_Truncate ==
    phase = "truncated" =>
        /\ ~output.panic
        /\ Len(input.s) <= input.n => output.v = input.s
        /\ Len(input.s) > input.n =>
              /\ Len(output.v) = input.n
              /\ input.n >= 3
              /\ SubSeq(output.v, input.n - 2, input.n) = <<".", ".", ".">>

\* n/d (n >= 0, d > 0) rounded to the nearest whole number, halves to even:
\* the %.0f verb
RoundHalfEven(n, d) ==
    LET q == n \div d
        r == n % d
    IN  IF 2 * r > d \/ (2 * r = d /\ q % 2 = 1) THEN q + 1 ELSE q

\* FormatDuration for a duration of ms milliseconds (us = 1000 * ms): the
\* unit and the numbers that are printed; `tenths` and `hundredths` are the
\* printed value of %.1f and %.2f without the decimal point
FormatDuration(ms) ==
    IF ms < 1 THEN [unit |-> "us", major |-> RoundHalfEven(ms * 1000, 1), minor |-> 0]
    ELSE IF ms < 1000 THEN [unit |-> "ms", major |-> ms * 10, minor |-> 0]
    ELSE IF ms < 60 * 1000
    THEN [unit |-> "s", major |-> RoundHalfEven(ms * 100, 1000), minor |-> 0]
    ELSE IF ms < 60 * 60 * 1000
    THEN [unit |-> "m", major |-> RoundHalfEven(ms, 60 * 1000),
          minor |-> (ms \div 1000) % 60]
    ELSE [unit |-> "h", major |-> RoundHalfEven(ms, 60 * 60 * 1000),
          minor |-> (ms \div (60 * 1000)) % 60]

DurationInit ==
    /\ NewEngine
    /\ NoSweep /\ NoSuggestions /\ NoLoad
    /\ phase = "duration"
    /\ output = << >>
    /\ \E k \in 0..MaxDurSteps : input = k * MaxDurStep * 1000

\* a call of format_time on a duration
FormatDurationCall ==
    /\ phase = "duration"
    /\ phase' = "formatted"
    /\ output' = FormatDuration(input)
    /\ UNCHANGED <<engineVars, sweepVars, suggVars, loadVars, input>>

DurationSpec == DurationInit /\ [][FormatDurationCall]_vars

\* C27: from one minute up to one hour format_time prints minutes M and
\* seconds S with 0 <= S < 60 and M*60 + S the whole seconds; from one hour
\* on it prints hours H and minutes M with 0 <= M < 60 and H*60 + M the
\* whole minutes.
C27_FormatTime ==
    phase = "formatted" =>
        /\ (input >= 60000 /\ input < 3600000) =>
              /\ output.unit = "m"
              /\ output.minor \in 0..59
              /\ output.major * 60 + output.minor = input \div 1000
        /\ input >= 3600000 =>
              /\ output.unit = "h"
              /\ output.minor \in 0..59
              /\ output.major * 60 + output.minor = input \div 60000

(***************************************************************************)
(* One call of Engine.evaluateClause on a store, a clause and a bindings   *)
(* map.                                                                    *)
(***************************************************************************)
\* the store of the clause evaluations
ClauseStore ==
    [EmptyStore EXCEPT
        !["q"] = << Fact("q", <<Num(1)>>), Fact("q", <<Num(2)>>), Fact("q", <<Str("a")>>) >>,
        !["e"] = << Fact("e", <<Num(1), Num(2)>>), Fact("e", <<Num(2), Num(2)>>),
                    Fact("e", <<Num(2), Num(3)>>), Fact("e", <<Num(1)>>),
                    Fact("e", <<Str("1"), Num(1)>>) >>]

\* the bindings a clause is evaluated in
ClauseBindings ==
    { EmptyBindings,
      CloneSet(EmptyBindings, "?X", Num(1)),
      CloneSet(EmptyBindings, "?X", Num(2)),
      CloneSet(EmptyBindings, "?X", Str("a")),
      CloneSet(CloneSet(EmptyBindings, "?X", Num(1)), "?Y", Num(2)),
      CloneSet(EmptyBindings, "?N", Num(3)) }

AtomTerms == { Var("?X"), Var("?Y"), Wild, Const(Num(1)), Const(Num(2)), Const(Str("1")) }

AtomCatalog ==
    { Atom(p, args) : p \in {"q", "e", "p"},
                      args \in UNION { [1..n -> AtomTerms] : n \in 1..MaxAtomArgs } }

ComparisonCatalog ==
    { Comparison(Var("?X"), ">", Const(Num(1))),
      Comparison(Var("?X"), "=", Var("?Y")),
      Comparison(Var("?W"), ">", Const(Num(1))),
      Comparison(Const(Num(1)), "<", Var("?W")),
      Comparison(Wild, "=", Const(Num(1))),
      Comparison(Var("?X"), "!=", Wild) }

AssignmentCatalog ==
    { Assignment("?Z", BinaryExpr(TermExpr(Var("?X")), "+", TermExpr(Const(Num(1))))),
      Assignment("?Z", FunctionCall("abs", <<TermExpr(Var("?X"))>>)),
      Assignment("?Z", FunctionCall("nosuch", <<TermExpr(Var("?X"))>>)),
      Assignment("?Z", FunctionCall("abs", <<TermExpr(Var("?X")), TermExpr(Var("?X"))>>)),
      Assignment("?Z", BinaryExpr(TermExpr(Var("?X")), "+", TermExpr(Const(Str("a"))))),
      Assignment("?Z", BinaryExpr(TermExpr(Var("?X")), "*", TermExpr(Var("?W")))) }

AggregationBodies ==
    { <<AtomClause(Atom("q", <<Var("?V")>>))>>,
      <<AtomClause(Atom("p", <<Var("?V")>>))>>,
      <<AtomClause(Atom("e", <<Var("?X"), Var("?V")>>))>>,
      <<AtomClause(Atom("e", <<Var("?V"), Var("?T")>>)),
        Comparison(Var("?T"), ">", Const(Num(2)))>>,
      <<AtomClause(Atom("q", <<Var("?V")>>)),
        Comparison(Var("?V"), "=", Const(Str("a")))>> }

AggregationCatalog ==
    { Aggregation(op, "?V", body, "?N")
      : op \in {"count", "sum", "max", "min", "avg"}, body \in AggregationBodies }

NegationCatalog ==
    { Negation(Atom("q", <<Var("?X")>>)),
      Negation(Atom("e", <<Var("?X"), Wild>>)),
      Negation(Atom("p", <<Wild>>)) }

ClauseCatalog ==
    { AtomClause(a) : a \in AtomCatalog }
       \cup ComparisonCatalog \cup AssignmentCatalog \cup AggregationCatalog
       \cup NegationCatalog

ClauseInit ==
    /\ NewEngine
    /\ NoSweep /\ NoSuggestions /\ NoLoad
    /\ phase = "clause"
    /\ output = << >>
    /\ \E c \in ClauseCatalog : \E b \in ClauseBindings :
          input = [store |-> ClauseStore, clause |-> c, bindings |-> b]

\* e.evaluateClause(clause, bindings)
EvaluateClauseCall ==
    /\ phase = "clause"
    /\ phase' = "evaluated"
    /\ output' = evaluateClause(input.store, input.clause, input.bindings)
    /\ UNCHANGED <<engineVars, sweepVars, suggVars, loadVars, input>>

ClauseSpec == ClauseInit /\ [][EvaluateClauseCall]_vars

\* equality of two values: numeric when both are numbers, else equality of
\* the printed forms (the numbers of the store are whole)
ShownValue(x) == IF x.k = "s" THEN x.s ELSE ToString(x.n)
EqualValues(u, v) ==
    IF u.k = "n" /\ v.k = "n" THEN u.n * v.d = v.n * u.d
    ELSE ShownValue(u) = ShownValue(v)

\* the variables of an atom
AtomVars(atom) ==
    { atom.Args[i].name : i \in { k \in 1..Len(atom.Args) : atom.Args[k].t = "var" } }

\* the bindings extended by the fact: a variable that was not bound is bound
\* to the fact value at its first position in the atom
Extended(atom, f, b) ==
    [v \in DOMAIN b \cup AtomVars(atom) |->
        IF v \in DOMAIN b THEN b[v]
        ELSE f.Args[CHOOSE i \in 1..Len(atom.Args) :
                       /\ atom.Args[i] = Var(v)
                       /\ \A j \in 1..(i - 1) : atom.Args[j] # Var(v)]]

\* the fact matches the atom under the bindings
Matches(atom, f, b) ==
    /\ Len(f.Args) = Len(atom.Args)
    /\ \A i \in 1..Len(atom.Args) :
          CASE atom.Args[i].t = "const" -> EqualValues(atom.Args[i].v, f.Args[i])
            [] atom.Args[i].t = "var" ->
                  EqualValues(Extended(atom, f, b)[atom.Args[i].name], f.Args[i])
            [] OTHER -> TRUE

\* C22: evaluateAtom returns, in the order of the store, one extended
\* binding for every fact of the predicate that has the arity of the atom
\* and matches it, and nothing else: constants and bound variables equal
\* the fact value, unbound variables are bound to it, wildcards bind nothing.
C22_AtomMatching ==
    (phase = "evaluated" /\ input.clause.c = "atom") =>
        LET atom == input.clause.atom
            matching == SelectSeq(input.store[atom.Predicate],
                                  LAMBDA f : Matches(atom, f, input.bindings))
        IN  /\ output.err = ""
            /\ output.bs = [k \in 1..Len(matching) |->
                               Extended(atom, matching[k], input.bindings)]

C22_Witness ==
    /\ phase = "evaluated"
    /\ input.clause = AtomClause(Atom("e", <<Var("?X"), Var("?Y")>>))
    /\ input.bindings = CloneSet(EmptyBindings, "?X", Num(2))
    /\ Len(output.bs) = 2
    /\ Len(input.store["e"]) = 5
    /\ output.bs[2]["?Y"] = Num(3)

\* the numbers among the values of the aggregated variable in the solutions
NumericValues(solutions, v) ==
    LET bound == SelectSeq(solutions, LAMBDA s : v \in DOMAIN s /\ s[v].k = "n")
    IN  [i \in 1..Len(bound) |-> bound[i][v]]

RECURSIVE Total(_)
Total(vs) == IF vs = << >> THEN 0 ELSE Head(vs).n + Total(Tail(vs))

\* C23: an Aggregation yields at most one candidate: count binds `into` to
\* the number of solutions of the nested body and sum to the sum of the
\* numeric values (0 when there are none); max, min and avg yield no
\* candidate without a numeric value; the candidate is the outer bindings
\* with only `into` added.
C23_Aggregation ==
    (phase = "evaluated" /\ input.clause.c = "agg") =>
        LET agg == input.clause
            solutions == evaluateBody(input.store, agg.body, <<input.bindings>>).bs
            values == NumericValues(solutions, agg.var)
        IN  /\ output.err = ""
            /\ Len(output.bs) <= 1
            /\ agg.op \in {"count", "sum"} => Len(output.bs) = 1
            /\ agg.op \in {"max", "min", "avg"} => (Len(output.bs) = 1 <=> Len(values) > 0)
            /\ \A k \in 1..Len(output.bs) :
                  /\ DOMAIN output.bs[k] = DOMAIN input.bindings \cup {agg.into}
                  /\ \A v \in DOMAIN input.bindings \ {agg.into} :
                        output.bs[k][v] = input.bindings[v]
                  /\ agg.op = "count" => output.bs[k][agg.into] = Num(Len(solutions))
                  /\ agg.op = "sum" => output.bs[k][agg.into] = Num(Total(values))
                  /\ agg.op = "max" =>
                        /\ \E i \in 1..Len(values) : output.bs[k][agg.into] = values[i]
                        /\ \A i \in 1..Len(values) : values[i].n <= output.bs[k][agg.into].n
                  /\ agg.op = "min" =>
                        /\ \E i \in 1..Len(values) : output.bs[k][agg.into] = values[i]
                        /\ \A i \in 1..Len(values) : values[i].n >= output.bs[k][agg.into].n

C23_Witness ==
    /\ phase = "evaluated"
    /\ input.clause.c = "agg"
    /\ input.clause.op = "count"
    /\ input.clause.body = <<AtomClause(Atom("e", <<Var("?X"), Var("?V")>>))>>
    /\ input.bindings = CloneSet(EmptyBindings, "?X", Num(2))
    /\ output.bs = <<CloneSet(input.bindings, "?N", Num(2))>>

(***************************************************************************)
(* Clauses that fail to evaluate: single clause evaluations, and Evaluate  *)
(* on rules that hold such clauses.                                        *)
(***************************************************************************)
ErrorsInit ==
    /\ NewEngine
    /\ phase = "errors"
    /\ EngineIdle

LocalErrorsSpec ==
    (ErrorsInit \/ ClauseInit)
       /\ [][(phase = "errors" /\ EngineNext) \/ EvaluateClauseCall]_vars

\* the variables of an expression
RECURSIVE ExprVars(_)
ExprVars(expr) ==
    CASE expr.e = "term" -> IF expr.term.t = "var" THEN {expr.term.name} ELSE {}
      [] expr.e = "bin" -> ExprVars(expr.left) \cup ExprVars(expr.right)
      [] expr.e = "call" -> UNION { ExprVars(expr.args[i]) : i \in 1..Len(expr.args) }

\* an operand of the expression is a string
RECURSIVE StringOperand(_, _)
StringOperand(expr, b) ==
    CASE expr.e = "term" ->
            \/ expr.term.t = "const" /\ expr.term.v.k = "s"
            \/ expr.term.t = "var" /\ expr.term.name \in DOMAIN b /\ b[expr.term.name].k = "s"
      [] expr.e = "bin" -> StringOperand(expr.left, b) \/ StringOperand(expr.right, b)
      [] expr.e = "call" -> \E i \in 1..Len(expr.args) : StringOperand(expr.args[i], b)

\* the expression of the assignment calls a function that does not exist or
\* calls abs with other than one argument, has a non-numeric operand, or
\* uses a variable that is not bound
FailingAssignment(clause, b) ==
    /\ clause.c = "assign"
    /\ \/ clause.expr.e = "call" /\ clause.expr.name = "nosuch"
       \/ clause.expr.e = "call" /\ clause.expr.name = "abs" /\ Len(clause.expr.args) # 1
       \/ clause.expr.e \in {"bin", "call"} /\ StringOperand(clause.expr, b)
       \/ ~(ExprVars(clause.expr) \subseteq DOMAIN b)

\* a term of the comparison is an unbound variable or a wildcard
UnresolvableComparison(clause, b) ==
    /\ clause.c = "cmp"
    /\ \E t \in {clause.left, clause.right} :
          t.t = "wild" \/ (t.t = "var" /\ t.name \notin DOMAIN b)

\* the numbers among the q facts
NumbersOfQ(store) ==
    { store["q"][i].Args[1] : i \in { k \in 1..Len(store["q"]) : store["q"][k].Args[1].k = "n" } }

\* C24: an Assignment whose expression fails (unknown function, wrong
\* argument count, non-numeric operand, unbound variable) and a Comparison
\* with an unresolvable term yield no candidates and no error; Evaluate
\* returns nil on rules with such clauses, and the other candidates and
\* the other rules are evaluated to the end.
C24_LocalErrors ==
    /\ (phase = "evaluated"
           /\ (FailingAssignment(input.clause, input.bindings)
                  \/ UnresolvableComparison(input.clause, input.bindings))) =>
          output.bs = << >> /\ output.err = ""
    /\ phase = "errors" =>
          /\ pc # "error" /\ evalErr = ""
          /\ pc = "done" =>
                /\ \A k \in 1..Len(rules) :
                      /\ rules[k] = RuleIncr =>
                            { facts["d"][i].Args[1] : i \in 1..Len(facts["d"]) }
                               = { Num(v.n + 1) : v \in NumbersOfQ(facts) }
                      /\ rules[k] = RuleCopy =>
                            \A i \in 1..Len(facts["q"]) :
                               \E j \in 1..Len(facts["r"]) :
                                  facts["r"][j].Args = facts["q"][i].Args
                /\ (\A k \in 1..Len(rules) : rules[k] # RuleIncr) => facts["d"] = << >>
                /\ facts["p"] = << >>

C24_Witness ==
    /\ phase = "errors"
    /\ pc = "done"
    /\ Len(rules) = 2
    /\ rules[1] = RuleIncr
    /\ rules[2] = RuleCopy
    /\ Len(facts["q"]) = 3
    /\ Len(facts["d"]) = 2
    /\ Len(facts["r"]) = 3

(***************************************************************************)
(* Clause evaluation with the bindings maps as objects.  A Bindings value  *)
(* is a reference to a map: `heap` is the sequence of the maps that exist, *)
(* a reference is an index into it.  Clone allocates a new map, an index   *)
(* assignment changes the map it is applied to.                            *)
(***************************************************************************)
RefRes(refs, err, heap) == [refs |-> refs, err |-> err, heap |-> heap]

\* variant: Clone returns the map it is applied to
CloneAlias(heap, ref) == [heap |-> heap, ref |-> ref]

\* Bindings.Clone
Clone(heap, ref) == [heap |-> Append(heap, heap[ref]), ref |-> Len(heap) + 1]

\* `bindings[v] = val`
SetBinding(heap, ref, v, val) == [heap EXCEPT ![ref] = CloneSet(heap[ref], v, val)]

\* the argument loop of evaluateAtom on the cloned map
RECURSIVE matchArgsRef(_, _, _, _, _, _)
matchArgsRef(args, fargs, i, heap, ref, matched) ==
    IF i > Len(args) THEN [matched |-> matched, heap |-> heap]
    ELSE CASE args[i].t = "var" ->
                 IF Bound(heap[ref], args[i].name)
                 THEN matchArgsRef(args, fargs, i + 1, heap, ref,
                                   matched /\ valuesEqual(heap[ref][args[i].name], fargs[i]))
                 ELSE matchArgsRef(args, fargs, i + 1,
                                   SetBinding(heap, ref, args[i].name, fargs[i]), ref, matched)
           [] args[i].t = "const" ->
                 matchArgsRef(args, fargs, i + 1, heap, ref,
                              matched /\ valuesEqual(args[i].v, fargs[i]))
           [] args[i].t = "wild" -> matchArgsRef(args, fargs, i + 1, heap, ref, matched)

\* the loop of evaluateAtom over the facts of the predicate
RECURSIVE atomFactsRef(_, _, _, _, _, _)
matchedRef(fs, atom, i, ref, acc, c, m) ==
    atomFactsRef(fs, atom, i + 1, m.heap, ref, IF m.matched THEN Append(acc, c.ref) ELSE acc)
clonedRef(fs, atom, i, ref, acc, c) ==
    matchedRef(fs, atom, i, ref, acc, c,
               matchArgsRef(atom.Args, fs[i].Args, 1, c.heap, c.ref, TRUE))
atomFactsRef(fs, atom, i, heap, ref, acc) ==
    IF i > Len(fs) THEN RefRes(acc, "", heap)
    ELSE IF Len(fs[i].Args) # Len(atom.Args)
    THEN atomFactsRef(fs, atom, i + 1, heap, ref, acc)
    ELSE clonedRef(fs, atom, i, ref, acc, Clone(heap, ref))

evaluateAtomRef(store, atom, heap, ref) ==
    atomFactsRef(store[atom.Predicate], atom, 1, heap, ref, << >>)

\* evaluateComparison returns the map it was given
comparedRef(r, heap, ref) == RefRes(IF Len(r.bs) > 0 THEN <<ref>> ELSE << >>, r.err, heap)
evaluateComparisonRef(comp, heap, ref) ==
    comparedRef(evaluateComparison(comp, heap[ref]), heap, ref)

\* evaluateAssignment clones the map and sets the variable in the clone
assignedRef(assign, r, c) ==
    RefRes(<<c.ref>>, "", SetBinding(c.heap, c.ref, assign.var, r.v))
valueRef(assign, heap, ref, r) ==
    IF ~r.ok THEN RefRes(<< >>, "", heap)
    ELSE assignedRef(assign, r, Clone(heap, ref))
evaluateAssignmentRef(assign, heap, ref) ==
    valueRef(assign, heap, ref, evaluateExpression(assign.expr, heap[ref]))

\* evaluateNegation returns the map it was given
negatedRef(m, ref) ==
    IF m.err # "" THEN m
    ELSE RefRes(IF Len(m.refs) = 0 THEN <<ref>> ELSE << >>, "", m.heap)
evaluateNegationRef(store, neg, heap, ref) ==
    negatedRef(evaluateAtomRef(store, neg.atom, heap, ref), ref)

\* the values collected by evaluateAggregation and their reduction
collectRef(agg, heap, refs) ==
    Flatten([i \in 1..Len(refs) |->
                IF agg.op = "count" THEN <<Num(1)>>
                ELSE IF Bound(heap[refs[i]], agg.var) /\ toFloat64(heap[refs[i]][agg.var]).ok
                THEN <<heap[refs[i]][agg.var]>>
                ELSE << >>])
reduceRef(op, values) ==
    CASE op = "count" -> <<Num(Len(values))>>
      [] op = "sum" -> <<SumSeq(values)>>
      [] op \in {"max", "min"} ->
            IF Len(values) = 0 THEN << >>
            ELSE <<Reduce(Tail(values), Head(values), op)>>
      [] op = "avg" ->
            IF Len(values) = 0 THEN << >>
            ELSE <<arith(SumSeq(values), Num(Len(values)), "/").v>>
      [] OTHER -> <<Num(0)>>

RECURSIVE evaluateBodyRef(_, _, _, _)

\* evaluateAggregation: the nested body runs on a clone, the result is set
\* in another clone of the outer map
boundRef(agg, result, c) ==
    RefRes(<<c.ref>>, "", SetBinding(c.heap, c.ref, agg.into, result[1]))
reducedRef(agg, heap, ref, result) ==
    IF result = << >> THEN RefRes(<< >>, "", heap)
    ELSE boundRef(agg, result, Clone(heap, ref))
bodyDoneRef(agg, ref, body) ==
    IF body.err # "" THEN body
    ELSE reducedRef(agg, body.heap, ref, reduceRef(agg.op, collectRef(agg, body.heap, body.refs)))
bodyCloneRef(store, agg, ref, c) ==
    bodyDoneRef(agg, ref, evaluateBodyRef(store, agg.body, c.heap, <<c.ref>>))
evaluateAggregationRef(store, agg, heap, ref) ==
    bodyCloneRef(store, agg, ref, Clone(heap, ref))

evaluateClauseRef(store, clause, heap, ref) ==
    CASE clause.c = "atom" -> evaluateAtomRef(store, clause.atom, heap, ref)
      [] clause.c = "cmp" -> evaluateComparisonRef(clause, heap, ref)
      [] clause.c = "assign" -> evaluateAssignmentRef(clause, heap, ref)
      [] clause.c = "agg" -> evaluateAggregationRef(store, clause, heap, ref)
      [] clause.c = "neg" -> evaluateNegationRef(store, clause, heap, ref)
      [] OTHER -> RefRes(<< >>, "unknown clause type", heap)

\* the inner loop of evaluateBody: one clause over every candidate
RECURSIVE clauseOverRef(_, _, _, _, _, _)
clauseNextRef(store, clause, refs, i, acc, r) ==
    IF r.err # "" THEN RefRes(<< >>, r.err, r.heap)
    ELSE clauseOverRef(store, clause, refs, i + 1, r.heap, acc \o r.refs)
clauseOverRef(store, clause, refs, i, heap, acc) ==
    IF i > Len(refs) THEN RefRes(acc, "", heap)
    ELSE clauseNextRef(store, clause, refs, i, acc,
                       evaluateClauseRef(store, clause, heap, refs[i]))

\* the outer loop of evaluateBody, from clause ci on
RECURSIVE bodyFromRef(_, _, _, _, _)
bodyNextRef(store, clauses, ci, r) ==
    IF r.err # "" \/ Len(r.refs) = 0 THEN r
    ELSE bodyFromRef(store, clauses, ci + 1, r.heap, r.refs)
bodyFromRef(store, clauses, ci, heap, refs) ==
    IF ci > Len(clauses) THEN RefRes(refs, "", heap)
    ELSE bodyNextRef(store, clauses, ci,
                     clauseOverRef(store, clauses[ci], refs, 1, heap, << >>))

evaluateBodyRef(store, clauses, heap, refs) == bodyFromRef(store, clauses, 1, heap, refs)

\* the clauses of the bodies, and the bindings a body starts from
BodyClauses ==
    { AtomClause(Atom("q", <<Var("?X")>>)),
      AtomClause(Atom("e", <<Var("?X"), Var("?Y")>>)),
      AtomClause(Atom("e", <<Var("?Y"), Var("?Y")>>)),
      Comparison(Var("?X"), ">", Const(Num(1))),
      Comparison(Var("?Y"), ">=", Var("?X")),
      Assignment("?Z", BinaryExpr(TermExpr(Var("?X")), "+", TermExpr(Const(Num(1))))),
      Assignment("?X", BinaryExpr(TermExpr(Var("?X")), "+", TermExpr(Const(Num(1))))),
      Aggregation("count", "?V", <<AtomClause(Atom("e", <<Var("?X"), Var("?V")>>))>>, "?N"),
      Aggregation("sum", "?V", <<AtomClause(Atom("q", <<Var("?V")>>)),
                                 Assignment("?X", TermExpr(Var("?V")))>>, "?X"),
      Aggregation("max", "?Y", <<AtomClause(Atom("e", <<Var("?X"), Var("?Y")>>))>>, "?M"),
      Negation(Atom("e", <<Var("?X"), Const(Num(3))>>)),
      Negation(Atom("q", <<Var("?Y")>>)) }

BodyBindings == { EmptyBindings, CloneSet(EmptyBindings, "?X", Num(1)) }

RefInit ==
    /\ NewEngine
    /\ NoSweep /\ NoSuggestions /\ NoLoad
    /\ phase = "body"
    /\ \E cs \in UNION { [1..n -> BodyClauses] : n \in 1..MaxBodyLen } :
          input = [store |-> ClauseStore, clauses |-> cs]
    /\ \E b \in BodyBindings :
          output = [heap |-> <<b>>, refs |-> <<1>>, err |-> "", ci |-> 1,
                    before |-> <<b>>, given |-> <<1>>]

\* one iteration of the loop of evaluateBody: the next clause is evaluated
\* on every candidate
EvaluateClauseRefs ==
    /\ phase = "body"
    /\ output.ci <= Len(input.clauses)
    /\ output.err = "" /\ Len(output.refs) > 0
    /\ output' = [heap |-> clauseOverRef(input.store, input.clauses[output.ci],
                                         output.refs, 1, output.heap, << >>).heap,
                  refs |-> clauseOverRef(input.store, input.clauses[output.ci],
                                         output.refs, 1, output.heap, << >>).refs,
                  err |-> clauseOverRef(input.store, input.clauses[output.ci],
                                        output.refs, 1, output.heap, << >>).err,
                  ci |-> output.ci + 1,
                  before |-> output.heap,
                  given |-> output.refs]
    /\ UNCHANGED <<engineVars, sweepVars, suggVars, loadVars, input, phase>>

RefSpec == RefInit /\ [][EvaluateClauseRefs]_vars

\* the maps of a list of references
Deref(heap, refs) == [i \in 1..Len(refs) |-> heap[refs[i]]]

\* C25: evaluating a clause leaves every map that existed before as it was,
\* the maps it was given included; the candidates it returns are the ones
\* the clause yields for the given maps; a candidate that differs from every
\* given map is a new map, and no two candidates are the same map.
C25_BindingsUnchanged ==
    (phase = "body" /\ output.ci > 1) =>
        /\ Len(output.heap) >= Len(output.before)
        /\ \A a \in 1..Len(output.before) : output.heap[a] = output.before[a]
        /\ Deref(output.heap, output.refs)
              = clauseOver(input.store, input.clauses[output.ci - 1],
                           Deref(output.before, output.given), 1, << >>, FALSE).bs
        /\ \A i \in 1..Len(output.refs) :
              \/ output.refs[i] > Len(output.before)
              \/ /\ input.clauses[output.ci - 1].c \in {"cmp", "neg"}
                 /\ \E j \in 1..Len(output.given) : output.given[j] = output.refs[i]
        /\ \A i, j \in 1..Len(output.refs) : i # j => output.refs[i] # output.refs[j]

C25_Witness ==
    /\ phase = "body"
    /\ output.ci = 3
    /\ input.clauses[1] = AtomClause(Atom("e", <<Var("?X"), Var("?Y")>>))
    /\ input.clauses[2].c = "assign"
    /\ input.clauses[2].var = "?X"
    /\ Len(output.given) >= 3
    /\ Len(output.refs) >= 3
    /\ \E i \in 1..Len(output.refs) : \E j \in 1..Len(output.given) :
          /\ output.heap[output.refs[i]]["?Y"] = output.heap[output.given[j]]["?Y"]
          /\ output.heap[output.refs[i]]["?X"] = Num(3)
          /\ output.heap[output.given[j]]["?X"] = Num(2)

(***************************************************************************)
(* Two calls of Evaluator.Evaluate on one Evaluator, with the same (empty) *)
(* event list.                                                             *)
(***************************************************************************)
\* the caller keeps the result of the first call and calls Evaluate again
EvaluateAgain ==
    /\ phase = "finished"
    /\ pc = "done"
    /\ output = << >>
    /\ output' = <<suggestionsResult>>
    /\ phase' = "loaded"
    /\ UNCHANGED <<engineVars, sweepVars, suggVars, loadVars, input>>

RepeatNext == LoadNext \/ EvaluateAgain

RepeatSpec == LoadInit /\ [][RepeatNext]_vars

\* C30: the second call of Evaluate with the same events returns the
\* suggestions and the factsGenerated of the first call, and the store holds
\* the facts of the events once.
C30_RepeatableEvaluate ==
    (phase = "finished" /\ pc = "done" /\ output # << >>) =>
        /\ suggestionsResult.Suggestions = output[1].Suggestions
        /\ suggestionsResult.FactsGenerated = output[1].FactsGenerated
        /\ \A i \in 1..Len(emptyTraceFacts) :
              Len(facts[emptyTraceFacts[i].Predicate]) = 1

(***************************************************************************)
(* Engine.Evaluate on rule lists of atoms and comparisons, the same rules  *)
(* in every order.                                                         *)
(***************************************************************************)
\* p(?X) :- q(?X).
RuleFromQ == Rule(Atom("p", <<Var("?X")>>), <<AtomClause(Atom("q", <<Var("?X")>>))>>)
\* p(?X) :- r(?X).
RuleFromR == Rule(Atom("p", <<Var("?X")>>), <<AtomClause(Atom("r", <<Var("?X")>>))>>)
\* s(?X) :- p(?X), ?X < 10.
RuleSmall ==
    Rule(Atom("s", <<Var("?X")>>),
         <<AtomClause(Atom("p", <<Var("?X")>>)),
           Comparison(Var("?X"), "<", Const(Num(10)))>>)
\* q(?X) :- s(?X).
RuleBack == Rule(Atom("q", <<Var("?X")>>), <<AtomClause(Atom("s", <<Var("?X")>>))>>)

OrderRules == {RuleFromQ, RuleFromR, RuleSmall, RuleBack}

\* q("2"). r(2). r(1).
OrderFacts ==
    << Fact("q", <<Str("2")>>), Fact("r", <<Num(2)>>), Fact("r", <<Num(1)>>) >>

OrderInit ==
    /\ NewEngine
    /\ phase = "order"
    /\ EngineIdle

\* the owner of the engine adds the facts (Engine.AddFacts) and loads a
\* program of up to MaxOrderRules different rules, in any order
\* (Engine.LoadProgram)
LoadProgramCall ==
    /\ pc = "idle"
    /\ rules = << >>
    /\ inserted = 0
    /\ \E n \in 1..MaxOrderRules : \E rs \in [1..n -> OrderRules] :
          /\ \A i, j \in 1..n : i # j => rs[i] # rs[j]
          /\ rules' = rules \o rs
    /\ facts' = AddFacts(facts, OrderFacts)
    /\ inserted' = inserted + Len(OrderFacts)
    /\ UNCHANGED <<pc, ruleIdx, newFacts, evalCalls, evalErr, callStart,
                   passStart, doneStore, dzSeen, viaNeg, passes, prevOk>>
    /\ othersUnchanged

OrderNext == phase = "order" /\ (LoadProgramCall \/ EvaluateCall \/ EvalRule \/ EndPass)

OrderSpec == OrderInit /\ [][OrderNext]_vars

\* the facts of a store as a set, and a set of facts as a store
FactSet(store) == UNION { { store[p][i] : i \in 1..Len(store[p]) } : p \in DOMAIN store }

RECURSIVE SeqOf(_)
SeqOf(S) ==
    IF S = {} THEN << >>
    ELSE LET x == CHOOSE y \in S : TRUE IN <<x>> \o SeqOf(S \ {x})

StoreOf(S) == [p \in Preds |-> SeqOf({ f \in S : f.Predicate = p })]

\* the facts the rules derive in one step from the set S of facts
Derivable(S, rs) ==
    UNION { { evaluateRule(StoreOf(S), rs[i]).derived[k].fact
                : k \in 1..Len(evaluateRule(StoreOf(S), rs[i]).derived) }
            : i \in 1..Len(rs) }

\* the least set of facts that holds S and is closed under the rules
RECURSIVE LeastFixpoint(_, _)
LeastFixpoint(S, rs) ==
    IF Derivable(S, rs) \subseteq S THEN S
    ELSE LeastFixpoint(S \cup Derivable(S, rs), rs)

\* a fact with every argument in its printed form
Printed(f) == [Predicate |-> f.Predicate,
               Args |-> [i \in 1..Len(f.Args) |-> Sprint(f.Args[i])]]

\* C28: for rules of atoms and comparisons the facts in the store after
\* Evaluate are the least fixpoint of the rules over the facts the call
\* started with (facts are compared by their printed forms), whatever the
\* order of the rules.
C28_LeastFixpoint ==
    (phase = "order" /\ pc = "done") =>
        { Printed(f) : f \in FactSet(facts) }
           = { Printed(f) : f \in LeastFixpoint(FactSet(callStart), rules) }

(***************************************************************************)
(* Engine.Evaluate on rules whose head is the result of an aggregation     *)
(* over the predicate the rule derives.                                    *)
(***************************************************************************)
AggregatesInit ==
    /\ NewEngine
    /\ phase = "aggregates"
    /\ EngineIdle

AggregatesNext == phase = "aggregates" /\ EngineNext

AggregatesSpec == AggregatesInit /\ [][AggregatesNext]_vars

NoAssignment(rs) == ~HasClause(rs, "assign")

\* C29: with no Assignment clause in the rules every call of Evaluate
\* returns: the fixpoint loop of a call ends within MaxPasses iterations.
C29_Terminates ==
    (phase = "aggregates" /\ pc = "eval" /\ NoAssignment(rules)) => passes <= MaxPasses
====
